---- MODULE Spec2Model ----
(***************************************************************************)
(* Dot Game Center: the three game engines of src/dgc/games (TicTacToe,    *)
(* Connect4, Battleship) as state machines.  One engine is active per      *)
(* behaviour (app.py start_game constructs exactly one of them); the       *)
(* others stay in their constructed state.                                 *)
(***************************************************************************)
EXTENDS Integers, Sequences, FiniteSets, TLC

VARIABLES
  game,          \* which engine start_game constructed: "ttt", "c4" or "bs"
  last,          \* observation of the last call: [op, names, ret, changed]
  ttt_board,     \* TicTacToe.board[r][c] in {"", "X", "O"}
  ttt_sel_row,   \* TicTacToe.sel_row
  ttt_sel_col,   \* TicTacToe.sel_col
  ttt_winner,    \* TicTacToe.winner: None, a mark or "draw"
  cols,          \* Connect4.cols (dataclass field, default 7)
  rows,          \* Connect4.rows (dataclass field, default 6)
  c4_board,      \* Connect4.board[r][c] in {0, 1, 2}; row 0 is the top row
  c4_sel_col,    \* Connect4.sel_col
  c4_winner,     \* Connect4.winner: NoWinner (None), 1, 2 or -1 (draw)
  bs_size,            \* the side of the Battleship grids (the literal 10)
  bs_player_board,    \* Battleship.player_board[r][c]: 1 on a ship cell
  bs_player_ship_ids, \* Battleship.player_ship_ids[r][c]: ship id or 0
  bs_enemy_board,     \* Battleship.enemy_board
  bs_enemy_ship_ids,  \* Battleship.enemy_ship_ids
  bs_player_shots,    \* Battleship.player_shots[r][c]: 0 unknown, 1 miss, 2 hit
  bs_enemy_shots,     \* Battleship.enemy_shots
  bs_place_index,     \* Battleship.place_index
  bs_orientation,     \* Battleship.orientation: "H" or "V"
  bs_sel_row,         \* Battleship.sel_row
  bs_sel_col,         \* Battleship.sel_col
  bs_phase,           \* Battleship.phase: "place" or "attack"
  bs_winner,          \* Battleship.winner: None, "player" or "cpu"
  bs_last_message,    \* Battleship.last_message
  bs_target_queue,    \* Battleship._target_queue
  bs_target_set,      \* Battleship._target_set
  bs_player_sunk_ids, \* Battleship._player_sunk_ids
  bs_cpu_sunk_ids,    \* Battleship._cpu_sunk_ids
  bs_enemy_idx,       \* _place_enemy_ships: the ships placed so far (idx)
  app_mode,        \* MainFrame.mode: "menu" or "game" ("closed" after Close)
  app_menu_index,  \* MainFrame.menu_index
  app_cpu_pending, \* MainFrame._cpu_pending
  app_cpu_timer,   \* MainFrame._cpu_timer is a running CallLater
  app_write_queue, \* MainFrame._write_queue: the job numbers it holds
  app_ui_pc,       \* the UI thread's position in _enqueue_pad_write
  app_writer_pc,   \* _writer_loop: "get" (waiting in get) or "job" (running one)
  app_writer_job,  \* _writer_loop: the job it took last (0: none yet)
  app_jobs         \* the display jobs the UI thread has created so far

ttt_vars == <<ttt_board, ttt_sel_row, ttt_sel_col, ttt_winner>>
c4_vars == <<cols, rows, c4_board, c4_sel_col, c4_winner>>
bs_vars == <<bs_size, bs_player_board, bs_player_ship_ids, bs_enemy_board,
             bs_enemy_ship_ids, bs_player_shots, bs_enemy_shots, bs_place_index, bs_orientation,
             bs_sel_row, bs_sel_col, bs_phase, bs_winner, bs_last_message,
             bs_target_queue, bs_target_set, bs_player_sunk_ids, bs_cpu_sunk_ids,
             bs_enemy_idx>>
drv_vars == <<app_mode, app_menu_index, app_cpu_pending, app_cpu_timer>>
wq_vars == <<app_write_queue, app_ui_pc, app_writer_pc, app_writer_job, app_jobs>>
app_vars == <<drv_vars, wq_vars>>
vars == <<game, last, ttt_vars, c4_vars, bs_vars, app_vars>>

(***************************************************************************)
(* Python values shared by the engines.                                    *)
(***************************************************************************)
None == "None"

\* Python truthiness of an Optional[str]: None and "" are falsy.
Truthy(v) == v # None /\ v # ""

Max(a, b) == IF a > b THEN a ELSE b
Min(a, b) == IF a < b THEN a ELSE b

\* The tokens of a key batch that act (confirm, orientation toggle); the
\* observation keeps only these, not the navigation tokens.
ActionKeys == {"f2", "f3"}

Called(op, names, ret, changed) ==
  [op |-> op, names |-> names \cap ActionKeys, ret |-> ret, changed |-> changed]

(***************************************************************************)
(* Bounds of the exploration.                                              *)
(***************************************************************************)
\* run_ai_turn is explored out of turn only on boards with at most this
\* many empty cells (the search visits up to MaxSearchCells! leaves).
MaxSearchCells == 5

\* The Connect4 engine is constructed with MaxCols columns and MaxRows rows.
MaxCols == 4

MaxRows == 3

\* The Battleship grid has GridSize rows and GridSize columns.
GridSize == 2

\* A Battleship key batch holds at most MaxBatch tokens.
MaxBatch == 2

(***************************************************************************)
(* TicTacToe (src/dgc/games/tictactoe.py)                                  *)
(***************************************************************************)
player_mark == "X"
ai_mark == "O"

TTTKeys == {"panLeft", "panRight", "f1", "f4", "f2"}

TTTEmptyBoard == [r \in 0..2 |-> [c \in 0..2 |-> ""]]

\* The 8 lines in the order _check_winner builds them: rows, columns,
\* main diagonal, anti-diagonal; each as r1,c1,r2,c2,r3,c3.
TTTLines == << <<0,0,0,1,0,2>>, <<1,0,1,1,1,2>>, <<2,0,2,1,2,2>>,
               <<0,0,1,0,2,0>>, <<0,1,1,1,2,1>>, <<0,2,1,2,2,2>>,
               <<0,0,1,1,2,2>>, <<0,2,1,1,2,0>> >>

\* line[0] and all(cell == line[0] for cell in line)
TTTLineComplete(b, i) ==
  LET l == TTTLines[i]
      m == b[l[1]][l[2]]
  IN m # "" /\ b[l[3]][l[4]] = m /\ b[l[5]][l[6]] = m

RECURSIVE TTT_first_line(_, _)
TTT_first_line(b, i) ==
  IF i > 8 THEN None
  ELSE IF TTTLineComplete(b, i) THEN b[TTTLines[i][1]][TTTLines[i][2]]
  ELSE TTT_first_line(b, i + 1)

\* _check_winner looking at the three rows only.
TTT_check_winner_rows_only(b) ==
  IF TTTLineComplete(b, 1) THEN b[0][0]
  ELSE IF TTTLineComplete(b, 2) THEN b[1][0]
  ELSE IF TTTLineComplete(b, 3) THEN b[2][0]
  ELSE None

\* _check_winner: the mark of the first complete line, or None.
TTT_check_winner(b) == TTT_first_line(b, 1)

TTTFull(b) == \A r \in 0..2 : \A c \in 0..2 : b[r][c] # ""

TTTEmpties(b) == Cardinality({p \in (0..2) \X (0..2) : b[p[1]][p[2]] = ""})

\* _update_winner without its draw branch.
TTT_update_winner_no_draw(b, w) ==
  LET winner == TTT_check_winner(b)
  IN IF Truthy(winner) THEN winner ELSE w

\* _update_winner: the new value of winner for board b and old winner w.
TTT_update_winner(b, w) ==
  LET winner == TTT_check_winner(b)
  IN IF Truthy(winner) THEN winner
     ELSE IF TTTFull(b) THEN "draw"
     ELSE w

\* _minimax works in place on self.board: it writes a trial mark, recurses
\* and writes "" back.  The operators thread the board through the search
\* and return it with the score, so what the search leaves behind is part
\* of the result.
RECURSIVE TTT_minimax(_, _), TTT_minimax_loop(_, _, _, _)

TTT_minimax(b, maximizing) ==
  LET winner == TTT_check_winner(b)
  IN IF winner = ai_mark THEN [score |-> 1, board |-> b]
     ELSE IF winner = player_mark THEN [score |-> -1, board |-> b]
     ELSE IF TTTFull(b) THEN [score |-> 0, board |-> b]
     ELSE TTT_minimax_loop(b, maximizing, 0, IF maximizing THEN -2 ELSE 2)

\* The loops of _minimax without the write of "" that undoes the trial mark.
RECURSIVE TTT_minimax_loop_no_undo(_, _, _, _)
TTT_minimax_loop_no_undo(b, maximizing, k, best) ==
  IF k = 9 THEN [score |-> best, board |-> b]
  ELSE LET r == k \div 3
           c == k % 3
       IN IF b[r][c] = ""
          THEN LET sub == TTT_minimax(
                            [b EXCEPT ![r][c] = IF maximizing THEN ai_mark ELSE player_mark],
                            ~maximizing)
               IN TTT_minimax_loop_no_undo(sub.board, maximizing, k + 1,
                                           IF maximizing THEN Max(best, sub.score)
                                                         ELSE Min(best, sub.score))
          ELSE TTT_minimax_loop_no_undo(b, maximizing, k + 1, best)

\* The two nested for loops of _minimax from cell k on (k = 3*r + c).
TTT_minimax_loop(b, maximizing, k, best) ==
  IF k = 9 THEN [score |-> best, board |-> b]
  ELSE LET r == k \div 3
           c == k % 3
       IN IF b[r][c] = ""
          THEN LET sub == TTT_minimax(
                            [b EXCEPT ![r][c] = IF maximizing THEN ai_mark ELSE player_mark],
                            ~maximizing)
               IN TTT_minimax_loop([sub.board EXCEPT ![r][c] = ""], maximizing, k + 1,
                                   IF maximizing THEN Max(best, sub.score)
                                                 ELSE Min(best, sub.score))
          ELSE TTT_minimax_loop(b, maximizing, k + 1, best)

NoMove == <<>>

\* _best_move keeping the cell with the lowest score (comparison turned).
RECURSIVE TTT_best_move_loop_worst(_, _, _, _)
TTT_best_move_loop_worst(b, k, best_score, best) ==
  IF k = 9 THEN [move |-> best, board |-> b]
  ELSE LET r == k \div 3
           c == k % 3
       IN IF b[r][c] = ""
          THEN LET sub == TTT_minimax([b EXCEPT ![r][c] = ai_mark], FALSE)
                   undone == [sub.board EXCEPT ![r][c] = ""]
               IN IF best = NoMove \/ sub.score < best_score
                  THEN TTT_best_move_loop_worst(undone, k + 1, sub.score, <<r, c>>)
                  ELSE TTT_best_move_loop_worst(undone, k + 1, best_score, best)
          ELSE TTT_best_move_loop_worst(b, k + 1, best_score, best)

\* _best_move that replaces the best cell on an equal score: the last cell
\* with the best score.
RECURSIVE TTT_best_move_loop_last(_, _, _, _)
TTT_best_move_loop_last(b, k, best_score, best) ==
  IF k = 9 THEN [move |-> best, board |-> b]
  ELSE LET r == k \div 3
           c == k % 3
       IN IF b[r][c] = ""
          THEN LET sub == TTT_minimax([b EXCEPT ![r][c] = ai_mark], FALSE)
                   undone == [sub.board EXCEPT ![r][c] = ""]
               IN IF sub.score >= best_score
                  THEN TTT_best_move_loop_last(undone, k + 1, sub.score, <<r, c>>)
                  ELSE TTT_best_move_loop_last(undone, k + 1, best_score, best)
          ELSE TTT_best_move_loop_last(b, k + 1, best_score, best)

\* _best_move from cell k on: the first cell with the strictly best score.
RECURSIVE TTT_best_move_loop(_, _, _, _)
TTT_best_move_loop(b, k, best_score, best) ==
  IF k = 9 THEN [move |-> best, board |-> b]
  ELSE LET r == k \div 3
           c == k % 3
       IN IF b[r][c] = ""
          THEN LET sub == TTT_minimax([b EXCEPT ![r][c] = ai_mark], FALSE)
                   undone == [sub.board EXCEPT ![r][c] = ""]
               IN IF sub.score > best_score
                  THEN TTT_best_move_loop(undone, k + 1, sub.score, <<r, c>>)
                  ELSE TTT_best_move_loop(undone, k + 1, best_score, best)
          ELSE TTT_best_move_loop(b, k + 1, best_score, best)

TTT_best_move(b) == TTT_best_move_loop(b, 0, -2, NoMove)

\* _ai_move: board and winner after the AI's move.
TTT_ai_move(b, w) ==
  LET bm == TTT_best_move(b)
  IN IF bm.move = NoMove THEN [board |-> bm.board, winner |-> w]
     ELSE LET placed == [bm.board EXCEPT ![bm.move[1]][bm.move[2]] = ai_mark]
          IN [board |-> placed, winner |-> TTT_update_winner(placed, w)]

\* _place_player without the occupied-cell check.
TTT_place_player_overwrite(b, w, row, col) ==
  LET placed == [b EXCEPT ![row][col] = player_mark]
  IN [board |-> placed, winner |-> TTT_update_winner(placed, w)]

\* _place_player at the cursor (row, col).
TTT_place_player(b, w, row, col) ==
  IF b[row][col] # "" THEN [board |-> b, winner |-> w]
  ELSE LET placed == [b EXCEPT ![row][col] = player_mark]
       IN [board |-> placed, winner |-> TTT_update_winner(placed, w)]

\* handle_key(names)
TTT_handle_key(names) ==
  /\ game = "ttt"
  /\ IF Truthy(ttt_winner)
     THEN /\ UNCHANGED ttt_vars
          /\ last' = Called("handle_key", names, FALSE, FALSE)
     ELSE LET col1 == IF "panLeft" \in names THEN (ttt_sel_col - 1) % 3 ELSE ttt_sel_col
              col2 == IF "panRight" \in names THEN (col1 + 1) % 3 ELSE col1
              row1 == IF "f1" \in names THEN (ttt_sel_row - 1) % 3 ELSE ttt_sel_row
              row2 == IF "f4" \in names THEN (row1 + 1) % 3 ELSE row1
              res == IF "f2" \in names
                     THEN TTT_place_player(ttt_board, ttt_winner, row2, col2)
                     ELSE [board |-> ttt_board, winner |-> ttt_winner]
          IN /\ ttt_sel_col' = col2
             /\ ttt_sel_row' = row2
             /\ ttt_board' = res.board
             /\ ttt_winner' = res.winner
             /\ last' = Called("handle_key", names, FALSE, res.board # ttt_board)
  /\ UNCHANGED <<game, c4_vars, bs_vars>>

\* run_ai_turn without the check of winner.
TTT_run_ai_turn_unguarded ==
  /\ game = "ttt"
  /\ \E res \in {TTT_ai_move(ttt_board, ttt_winner)} :
        /\ ttt_board' = res.board
        /\ ttt_winner' = res.winner
        /\ UNCHANGED <<ttt_sel_row, ttt_sel_col>>
        /\ last' = Called("run_ai_turn", {}, TRUE, res.board # ttt_board)
  /\ UNCHANGED <<game, c4_vars, bs_vars>>

\* run_ai_turn()
TTT_run_ai_turn ==
  /\ game = "ttt"
  /\ IF ttt_winner # None
     THEN /\ UNCHANGED ttt_vars
          /\ last' = Called("run_ai_turn", {}, FALSE, FALSE)
     ELSE \E res \in {TTT_ai_move(ttt_board, ttt_winner)} :
             /\ ttt_board' = res.board
             /\ ttt_winner' = res.winner
             /\ UNCHANGED <<ttt_sel_row, ttt_sel_col>>
             /\ last' = Called("run_ai_turn", {}, TRUE, res.board # ttt_board)
  /\ UNCHANGED <<game, c4_vars, bs_vars>>

\* reset(), also run by __post_init__.  The field turn, set to "player"
\* here, is never read or written again and is left out of the state.
TTT_reset ==
  /\ ttt_board = TTTEmptyBoard
  /\ ttt_sel_row = 0
  /\ ttt_sel_col = 0
  /\ ttt_winner = None

(***************************************************************************)
(* Connect4 (src/dgc/games/connect4.py)                                    *)
(***************************************************************************)
\* None as the value of the Optional[int] winner.
NoWinner == -99

\* math.inf
inf == 1000000000

\* Python truthiness of an Optional[int]: None and 0 are falsy.
TruthyInt(v) == v # NoWinner /\ v # 0

Connect4Keys == {"panLeft", "panRight", "f2"}

Connect4EmptyBoard(nrows, ncols) == [r \in 0..(nrows - 1) |-> [c \in 0..(ncols - 1) |-> 0]]

\* The loop of _drop from row r upwards: the first empty cell of the column.
RECURSIVE Connect4_drop_from(_, _, _, _)
Connect4_drop_from(b, col, player, r) ==
  IF r < 0 THEN [ok |-> FALSE, board |-> b]
  ELSE IF b[r][col] = 0 THEN [ok |-> TRUE, board |-> [b EXCEPT ![r][col] = player]]
  ELSE Connect4_drop_from(b, col, player, r - 1)

\* _drop that puts the token into the top cell of the column.
Connect4_drop_top(b, col, player) ==
  IF b[0][col] = 0 THEN [ok |-> TRUE, board |-> [b EXCEPT ![0][col] = player]]
  ELSE [ok |-> FALSE, board |-> b]

\* _drop(col, player)
Connect4_drop(b, col, player) == Connect4_drop_from(b, col, player, rows - 1)

\* The loop of _undo_drop from row r downwards: the first occupied cell.
RECURSIVE Connect4_undo_drop_from(_, _, _)
Connect4_undo_drop_from(b, col, r) ==
  IF r >= rows THEN b
  ELSE IF b[r][col] # 0 THEN [b EXCEPT ![r][col] = 0]
  ELSE Connect4_undo_drop_from(b, col, r + 1)

\* _undo_drop that empties the bottom cell of the column.
Connect4_undo_drop_bottom(b, col) == [b EXCEPT ![rows - 1][col] = 0]

\* _undo_drop(col)
Connect4_undo_drop(b, col) == Connect4_undo_drop_from(b, col, 0)

\* _can_drop(col)
Connect4_can_drop(b, col) == b[0][col] = 0

\* The loop of _valid_moves that builds order: center-i, center+i, ...
RECURSIVE Connect4_order(_)
Connect4_order(i) ==
  IF i >= cols THEN <<>>
  ELSE LET center == cols \div 2
       IN (IF center - i >= 0 THEN <<center - i>> ELSE <<>>)
          \o (IF center + i < cols THEN <<center + i>> ELSE <<>>)
          \o Connect4_order(i + 1)

\* _valid_moves: the columns of the order list that can take a token.
Connect4_valid_moves(b) ==
  SelectSeq(<<cols \div 2>> \o Connect4_order(1), LAMBDA c : Connect4_can_drop(b, c))

\* _check_dir(r, c, dr, dc, player)
Connect4_check_dir(b, r, c, dr, dc, player) ==
  \A i \in 0..3 :
    LET rr == r + dr * i
        cc == c + dc * i
    IN /\ rr >= 0 /\ rr < rows /\ cc >= 0 /\ cc < cols
       /\ b[rr][cc] = player

\* The loop body of _find_winner without the two diagonal directions.
Connect4_wins_at_no_diagonals(b, k) ==
  LET r == k \div cols
      c == k % cols
      player == b[r][c]
  IN /\ player # 0
     /\ \/ Connect4_check_dir(b, r, c, 1, 0, player)
        \/ Connect4_check_dir(b, r, c, 0, 1, player)

\* The loop body of _find_winner at cell k = r*cols + c.
Connect4_wins_at(b, k) ==
  LET r == k \div cols
      c == k % cols
      player == b[r][c]
  IN /\ player # 0
     /\ \/ Connect4_check_dir(b, r, c, 1, 0, player)
        \/ Connect4_check_dir(b, r, c, 0, 1, player)
        \/ Connect4_check_dir(b, r, c, 1, 1, player)
        \/ Connect4_check_dir(b, r, c, 1, -1, player)

\* _find_winner: the token at the first cell, in row-major order, that
\* starts four equal tokens; None without one.
RECURSIVE Connect4_find_winner_from(_, _)
Connect4_find_winner_from(b, k) ==
  IF k >= rows * cols THEN NoWinner
  ELSE IF Connect4_wins_at(b, k) THEN b[k \div cols][k % cols]
  ELSE Connect4_find_winner_from(b, k + 1)

Connect4_find_winner(b) == Connect4_find_winner_from(b, 0)

\* all(self.board[0][c] != 0 for c in range(self.cols))
Connect4TopFull(b) == \A c \in 0..(cols - 1) : b[0][c] # 0

\* _check_winner: the new value of winner for board b and old winner w.
Connect4_check_winner(b, w) ==
  LET win == Connect4_find_winner(b)
  IN IF TruthyInt(win) THEN win
     ELSE IF Connect4TopFull(b) THEN -1
     ELSE w

\* window.count(v) for the window of four cells from (r, c) along (dr, dc).
Connect4_count(b, r, c, dr, dc, v) ==
  (IF b[r][c] = v THEN 1 ELSE 0)
  + (IF b[r + dr][c + dc] = v THEN 1 ELSE 0)
  + (IF b[r + 2 * dr][c + 2 * dc] = v THEN 1 ELSE 0)
  + (IF b[r + 3 * dr][c + 3 * dc] = v THEN 1 ELSE 0)

\* _score_window on the window of four cells from (r, c) along (dr, dc).
Connect4_score_window(b, r, c, dr, dc) ==
  LET ai == Connect4_count(b, r, c, dr, dc, 2)
      human == Connect4_count(b, r, c, dr, dc, 1)
      empty == Connect4_count(b, r, c, dr, dc, 0)
  IN IF ai = 4 THEN 100000
     ELSE IF ai = 3 /\ empty = 1 THEN 120
     ELSE IF ai = 2 /\ empty = 2 THEN 15
     ELSE IF human = 4 THEN -100000
     ELSE IF human = 3 /\ empty = 1 THEN -140
     ELSE IF human = 2 /\ empty = 2 THEN -10
     ELSE 0

\* One pair of nested loops of _evaluate_position: the sum of the scores
\* of the windows that start at (r, c), r in rlo..rhi and c in clo..chi.
RECURSIVE Connect4_sum_windows(_, _, _, _, _, _, _, _)
Connect4_sum_windows(b, r, rhi, c, clo, chi, dr, dc) ==
  IF r > rhi \/ clo > chi THEN 0
  ELSE IF c > chi THEN Connect4_sum_windows(b, r + 1, rhi, clo, clo, chi, dr, dc)
  ELSE Connect4_score_window(b, r, c, dr, dc)
       + Connect4_sum_windows(b, r, rhi, c + 1, clo, chi, dr, dc)

\* _evaluate_position: center bonus, then horizontal, vertical, diagonal
\* down-right and diagonal up-right windows.
Connect4_evaluate_position(b) ==
  LET center_col == cols \div 2
      center_count == Cardinality({r \in 0..(rows - 1) : b[r][center_col] = 2})
  IN center_count * 6
     + Connect4_sum_windows(b, 0, rows - 1, 0, 0, cols - 4, 0, 1)
     + Connect4_sum_windows(b, 0, rows - 4, 0, 0, cols - 1, 1, 0)
     + Connect4_sum_windows(b, 0, rows - 4, 0, 0, cols - 4, 1, 1)
     + Connect4_sum_windows(b, 3, rows - 1, 0, 0, cols - 4, -1, 1)

\* _minimax works in place on self.board (drop, recurse, undo); the
\* operators thread the board through the search and return it with the
\* value.
RECURSIVE Connect4_minimax(_, _, _, _, _), Connect4_minimax_loop(_, _, _, _, _, _, _, _)
\* _minimax scoring an AI win as a draw.
Connect4_minimax_win_as_draw(b, depth, maximizing, alpha, beta) ==
  LET winner == Connect4_find_winner(b)
  IN IF winner = 2 THEN [value |-> 0, board |-> b]
     ELSE IF winner = 1 THEN [value |-> -1000000 - depth, board |-> b]
     ELSE IF Connect4TopFull(b) THEN [value |-> 0, board |-> b]
     ELSE IF depth <= 0 THEN [value |-> Connect4_evaluate_position(b), board |-> b]
     ELSE Connect4_minimax_loop(b, depth, maximizing, alpha, beta, Connect4_valid_moves(b), 1,
                          IF maximizing THEN -inf ELSE inf)

Connect4_minimax(b, depth, maximizing, alpha, beta) ==
  LET winner == Connect4_find_winner(b)
  IN IF winner = 2 THEN [value |-> 1000000 + depth, board |-> b]
     ELSE IF winner = 1 THEN [value |-> -1000000 - depth, board |-> b]
     ELSE IF Connect4TopFull(b) THEN [value |-> 0, board |-> b]
     ELSE IF depth <= 0 THEN [value |-> Connect4_evaluate_position(b), board |-> b]
     ELSE Connect4_minimax_loop(b, depth, maximizing, alpha, beta, Connect4_valid_moves(b), 1,
                          IF maximizing THEN -inf ELSE inf)

\* The for loop of _minimax over valid from index i on.
Connect4_minimax_loop(b, depth, maximizing, alpha, beta, valid, i, value) ==
  IF i > Len(valid) THEN [value |-> value, board |-> b]
  ELSE LET col == valid[i]
           sub == Connect4_minimax(Connect4_drop(b, col, IF maximizing THEN 2 ELSE 1).board,
                             depth - 1, ~maximizing, alpha, beta)
           undone == Connect4_undo_drop(sub.board, col)
       IN IF maximizing
          THEN LET v == Max(value, sub.value)
                   a == Max(alpha, v)
               IN IF beta <= a THEN [value |-> v, board |-> undone]
                  ELSE Connect4_minimax_loop(undone, depth, maximizing, a, beta, valid, i + 1, v)
          ELSE LET v == Min(value, sub.value)
                   bt == Min(beta, v)
               IN IF bt <= alpha THEN [value |-> v, board |-> undone]
                  ELSE Connect4_minimax_loop(undone, depth, maximizing, alpha, bt, valid, i + 1, v)

\* The for loop of _ai_move keeping the column with the lowest score
\* (comparison turned).
RECURSIVE Connect4_root_loop_worst(_, _, _, _, _, _, _)
Connect4_root_loop_worst(b, depth, valid, i, best_col, best_score, alpha) ==
  IF i > Len(valid) THEN [col |-> best_col, board |-> b]
  ELSE LET col == valid[i]
           sub == Connect4_minimax(Connect4_drop(b, col, 2).board, depth - 1, FALSE, -inf, inf)
           undone == Connect4_undo_drop(sub.board, col)
           better == i = 1 \/ sub.value < best_score
       IN IF better
          THEN Connect4_root_loop_worst(undone, depth, valid, i + 1, col, sub.value, alpha)
          ELSE Connect4_root_loop_worst(undone, depth, valid, i + 1, best_col, best_score, alpha)

\* The for loop of _ai_move keeping the last column of the best score.
RECURSIVE Connect4_root_loop_last(_, _, _, _, _, _, _)
Connect4_root_loop_last(b, depth, valid, i, best_col, best_score, alpha) ==
  IF i > Len(valid) THEN [col |-> best_col, board |-> b]
  ELSE LET col == valid[i]
           sub == Connect4_minimax(Connect4_drop(b, col, 2).board, depth - 1, FALSE, alpha, inf)
           undone == Connect4_undo_drop(sub.board, col)
           better == sub.value >= best_score
           score == IF better THEN sub.value ELSE best_score
           a == Max(alpha, score)
       IN IF inf <= a THEN [col |-> IF better THEN col ELSE best_col, board |-> undone]
          ELSE Connect4_root_loop_last(undone, depth, valid, i + 1,
                            IF better THEN col ELSE best_col, score, a)

\* The for loop of _ai_move over valid from index i on.
RECURSIVE Connect4_root_loop(_, _, _, _, _, _, _)
Connect4_root_loop(b, depth, valid, i, best_col, best_score, alpha) ==
  IF i > Len(valid) THEN [col |-> best_col, board |-> b]
  ELSE LET col == valid[i]
           sub == Connect4_minimax(Connect4_drop(b, col, 2).board, depth - 1, FALSE, alpha, inf)
           undone == Connect4_undo_drop(sub.board, col)
           better == sub.value > best_score
           score == IF better THEN sub.value ELSE best_score
           a == Max(alpha, score)
       IN IF inf <= a THEN [col |-> IF better THEN col ELSE best_col, board |-> undone]
          ELSE Connect4_root_loop(undone, depth, valid, i + 1,
                            IF better THEN col ELSE best_col, score, a)

\* _ai_move: board and winner after the AI's move.
Connect4_ai_move(b, w) ==
  LET valid == Connect4_valid_moves(b)
  IN IF valid = <<>> THEN [board |-> b, winner |-> -1]
     ELSE LET empties == Cardinality({p \in (0..(rows - 1)) \X (0..(cols - 1)) :
                                        b[p[1]][p[2]] = 0})
              depth == IF empties <= 20 THEN 6 ELSE 5
              best == Connect4_root_loop(b, depth, valid, 1, valid[1], -inf, -inf)
              placed == Connect4_drop(best.board, best.col, 2).board
          IN [board |-> placed, winner |-> Connect4_check_winner(placed, w)]

\* The f2 branch of handle_key with the AI answering a rejected drop too.
Connect4_confirm_ai_always(b, w, col) ==
  LET d == Connect4_drop(b, col, 1)
      w1 == Connect4_check_winner(d.board, w)
  IN IF TruthyInt(w1) THEN [board |-> d.board, winner |-> w1]
     ELSE Connect4_ai_move(d.board, w1)

\* The f2 branch of handle_key: the human drop, the check, the AI's answer.
Connect4_confirm(b, w, col) ==
  LET d == Connect4_drop(b, col, 1)
  IN IF ~d.ok THEN [board |-> b, winner |-> w]
     ELSE LET w1 == Connect4_check_winner(d.board, w)
          IN IF TruthyInt(w1) THEN [board |-> d.board, winner |-> w1]
             ELSE Connect4_ai_move(d.board, w1)

\* handle_key(names)
Connect4_handle_key(names) ==
  /\ game = "c4"
  /\ IF TruthyInt(c4_winner)
     THEN /\ UNCHANGED c4_vars
          /\ last' = Called("handle_key", names, FALSE, FALSE)
     ELSE LET col1 == IF "panLeft" \in names THEN (c4_sel_col - 1) % cols ELSE c4_sel_col
              col2 == IF "panRight" \in names THEN (col1 + 1) % cols ELSE col1
          IN \E res \in {IF "f2" \in names THEN Connect4_confirm(c4_board, c4_winner, col2)
                         ELSE [board |-> c4_board, winner |-> c4_winner]} :
               /\ c4_sel_col' = col2
               /\ c4_board' = res.board
               /\ c4_winner' = res.winner
               /\ UNCHANGED <<cols, rows>>
               /\ last' = Called("handle_key", names, FALSE, res.board # c4_board)
  /\ UNCHANGED <<game, ttt_vars, bs_vars>>

\* Connect4(cols=ncols, rows=nrows): __post_init__ runs reset().
Connect4_reset(ncols, nrows) ==
  /\ cols = ncols
  /\ rows = nrows
  /\ c4_board = Connect4EmptyBoard(nrows, ncols)
  /\ c4_sel_col = 3
  /\ c4_winner = NoWinner

\* The board sizes <<cols, rows>> the engine is constructed with.
Connect4Sizes == {<<MaxCols, MaxRows>>}

Connect4Next ==
  \E names \in SUBSET Connect4Keys :
    /\ Connect4_handle_key(names)
    /\ UNCHANGED app_vars

\* Connect4(): the defaults of the dataclass fields cols and rows.
DefaultCols == 7

DefaultRows == 6

\* Plays on given boards.  On a board too large to explore whole the human
\* follows the given lines of play (the columns of the successive confirms)
\* and may also confirm in the columns of "also" at every move.  A line of
\* play belongs to its board: the one below is the play on which the human
\* wins with 4 columns and 4 rows.
Connect4TallPlays ==
  { [cols |-> 4, rows |-> 3, lines |-> {}, also |-> 0..3],
    [cols |-> 4, rows |-> 4,
     lines |-> {<<0, 0, 3, 2, 0, 2, 1, 1>>}, also |-> {0, 3}] }

Connect4WidePlays ==
  { [cols |-> 5, rows |-> 2, lines |-> {}, also |-> 0..4],
    [cols |-> DefaultCols, rows |-> DefaultRows,
     lines |-> {<<3, 2, 1>>, <<3, 2, 3, 3, 3, 1>>}, also |-> {}] }

\* The play explored on the current board, found by its size.
Connect4Play ==
  CHOOSE p \in Connect4TallPlays \cup Connect4WidePlays : p.cols = cols /\ p.rows = rows

\* The columns the human confirms in on the current board: the next column
\* of every line of play that is long enough, and the columns of "also".
Connect4Tried ==
  LET k == Cardinality({p \in (0..(rows - 1)) \X (0..(cols - 1)) : c4_board[p[1]][p[2]] = 1})
  IN Connect4Play.also \cup {l[k + 1] : l \in {m \in Connect4Play.lines : Len(m) > k}}

\* The calls of a play.  On a board explored whole every key batch is sent;
\* on the other boards the cursor moves freely and a confirm is sent alone,
\* in a column of the play.
Connect4PlayNext ==
  \E names \in SUBSET Connect4Keys :
    /\ "f2" \in names =>
         \/ Connect4Play.also = 0..(cols - 1)
         \/ names = {"f2"} /\ c4_sel_col \in Connect4Tried
    /\ Connect4_handle_key(names)
    /\ UNCHANGED app_vars

(***************************************************************************)
(* Battleship (src/dgc/games/battleship.py)                                *)
(*                                                                         *)
(* The source plays on a 10x10 grid with the fleet 5, 4, 3, 3, 2.  The     *)
(* model plays the same code on a bs_size x bs_size grid with the fleet    *)
(* SHIP_SIZES, at two scales: the grid of side GridSize, where whole games *)
(* are explored, and the grid of side HuntSize, large enough for the runs  *)
(* and clusters of hits the CPU's targeting works on, where games are      *)
(* explored along given plays.                                             *)
(***************************************************************************)
\* The side of the grid that the CPU's targeting is explored on: the fleets
\* and the firing line of these plays are laid out on it.
HuntSize == 4

\* A fleet whose first ship is longer than the side of the grid.
SHIP_SIZES_oversize == <<bs_size + 1, 2>>

\* The fleet: two ships at either scale, none of length 1 on the larger
\* grid (as in the source, where every ship has at least two cells).
SHIP_SIZES == IF bs_size = GridSize THEN <<2, 1>> ELSE <<3, 2>>

SHIP_NAMES == <<"CARRIER", "BATTLESHIP", "CRUISER", "SUB", "DESTROYER">>

BSKeys == {"panLeft", "panRight", "f1", "f4", "f3", "f2"}

BSRange == 0..(bs_size - 1)

BSCells == BSRange \X BSRange

BSEmptyGrid == [r \in BSRange |-> [c \in BSRange |-> 0]]

\* The cells of a ship of the given length from (r, c) along orientation.
BSRun(r, c, length, orientation) ==
  IF orientation = "H" THEN {<<r, c + i>> : i \in 0..(length - 1)}
  ELSE {<<r + i, c>> : i \in 0..(length - 1)}

\* last_message, kept as its parts: the kind of message, the ship it
\* names, the squares and hit/miss results it reports and the sunk parts.
BSMessage(kind, ship, squares, hits, sunk) ==
  [kind |-> kind, ship |-> ship, squares |-> squares, hits |-> hits, sunk |-> sunk]

\* _can_place with the bounds test only: occupied cells are not looked at.
BS_can_place_no_overlap(board, r, c, length, orientation) ==
  IF orientation = "H" THEN c + length <= bs_size ELSE r + length <= bs_size

\* _can_place(board, r, c, length, orientation)
BS_can_place(board, r, c, length, orientation) ==
  IF orientation = "H"
  THEN IF c + length > bs_size THEN FALSE
       ELSE \A i \in 0..(length - 1) : board[r][c + i] = 0
  ELSE IF r + length > bs_size THEN FALSE
       ELSE \A i \in 0..(length - 1) : board[r + i][c] = 0

\* _do_place_id that marks the origin cell only.
BS_do_place_id_origin(board, r, c, length, orientation, ship_id) ==
  [rr \in BSRange |-> [cc \in BSRange |->
     IF <<rr, cc>> = <<r, c>> THEN ship_id
     ELSE board[rr][cc]]]

\* _do_place_id(board, r, c, length, orientation, ship_id)
BS_do_place_id(board, r, c, length, orientation, ship_id) ==
  [rr \in BSRange |-> [cc \in BSRange |->
     IF <<rr, cc>> \in BSRun(r, c, length, orientation) THEN ship_id
     ELSE board[rr][cc]]]

\* _do_place(board, r, c, length, orientation)
BS_do_place(board, r, c, length, orientation) ==
  BS_do_place_id(board, r, c, length, orientation, 1)

\* _place_enemy_ships from ship index idx (1-based) on: every enemy grid
\* pair the retry loop can end with.  The loop draws orientation and origin
\* at random until the ship fits, so each legal placement can be drawn.
RECURSIVE BS_place_enemy_ships_from(_, _)
BS_place_enemy_ships_from(e, idx) ==
  IF idx > Len(SHIP_SIZES) THEN {e}
  ELSE UNION {
         BS_place_enemy_ships_from(
           [board |-> BS_do_place(e.board, t[2], t[3], SHIP_SIZES[idx], t[1]),
            ids |-> BS_do_place_id(e.ids, t[2], t[3], SHIP_SIZES[idx], t[1], idx)],
           idx + 1) :
         t \in {u \in {"H", "V"} \X BSRange \X BSRange :
                  BS_can_place(e.board, u[2], u[3], SHIP_SIZES[idx], u[1])}}

\* The enemy grids before _place_enemy_ships runs.
BSNoShips == [board |-> BSEmptyGrid, ids |-> BSEmptyGrid]

BS_place_enemy_ships == BS_place_enemy_ships_from(BSNoShips, 1)

\* _all_sunk that is satisfied by the first hit on a ship.
BS_all_sunk_any(ships, shots) ==
  \E p \in BSCells : ships[p[1]][p[2]] = 1 /\ shots[p[1]][p[2]] = 2

\* _all_sunk(ships, shots)
BS_all_sunk(ships, shots) ==
  \A p \in BSCells : ships[p[1]][p[2]] = 1 => shots[p[1]][p[2]] = 2

\* _is_ship_sunk(ship_ids, shots, ship_id)
BS_is_ship_sunk(ship_ids, shots, ship_id) ==
  \A p \in BSCells : ship_ids[p[1]][p[2]] = ship_id => shots[p[1]][p[2]] = 2

\* ((1, 0), (-1, 0), (0, 1), (0, -1))
BSDirs == <<<<1, 0>>, <<-1, 0>>, <<0, 1>>, <<0, -1>>>>

BSInGrid(r, c) == 0 <= r /\ r < bs_size /\ 0 <= c /\ c < bs_size

\* The for loop of _connected_hits over the four directions from index k
\* on, around the popped cell (rr, cc).
RECURSIVE BS_connected_push(_, _, _, _, _, _)
BS_connected_push(shots, rr, cc, k, stack, seen) ==
  IF k > 4 THEN [stack |-> stack, seen |-> seen]
  ELSE LET nr == rr + BSDirs[k][1]
           nc == cc + BSDirs[k][2]
       IN IF <<nr, nc>> \in seen
          THEN BS_connected_push(shots, rr, cc, k + 1, stack, seen)
          ELSE IF BSInGrid(nr, nc) /\ shots[nr][nc] = 2
          THEN BS_connected_push(shots, rr, cc, k + 1,
                                 Append(stack, <<nr, nc>>), seen \cup {<<nr, nc>>})
          ELSE BS_connected_push(shots, rr, cc, k + 1, stack, seen)

\* The while loop of _connected_hits.
RECURSIVE BS_connected_loop(_, _, _, _)
BS_connected_loop(shots, stack, seen, out) ==
  IF stack = <<>> THEN out
  ELSE LET top == stack[Len(stack)]
           pushed == BS_connected_push(shots, top[1], top[2], 1,
                                       SubSeq(stack, 1, Len(stack) - 1), seen)
       IN BS_connected_loop(shots, pushed.stack, pushed.seen, Append(out, top))

\* _connected_hits(r, c): the orthogonally connected hit cells, in the
\* order the depth-first walk appends them.
BS_connected_hits(shots, r, c) ==
  IF ~BSInGrid(r, c) THEN <<>>
  ELSE IF shots[r][c] # 2 THEN <<>>
  ELSE BS_connected_loop(shots, <<<<r, c>>>>, {<<r, c>>}, <<>>)

\* _enqueue_target without the membership test.
BS_enqueue_target_no_dedup(q, shots, r, c) ==
  IF ~BSInGrid(r, c) THEN q
  ELSE IF shots[r][c] # 0 THEN q
  ELSE [queue |-> Append(q.queue, <<r, c>>), set |-> q.set \cup {<<r, c>>}]


\* _enqueue_target without the return on a cell that was fired at.
BS_enqueue_target_fired(q, shots, r, c) ==
  IF ~BSInGrid(r, c) THEN q
  ELSE IF <<r, c>> \in q.set THEN q
  ELSE [queue |-> Append(q.queue, <<r, c>>), set |-> q.set \cup {<<r, c>>}]

\* _enqueue_target(r, c) on the targeting state q = [queue, set].
BS_enqueue_target(q, shots, r, c) ==
  IF ~BSInGrid(r, c) THEN q
  ELSE IF shots[r][c] # 0 THEN q
  ELSE IF <<r, c>> \in q.set THEN q
  ELSE [queue |-> Append(q.queue, <<r, c>>), set |-> q.set \cup {<<r, c>>}]

\* The closing loops of _enqueue_from_hit_cluster over the first cell of
\* the cluster only, the new hit.
BS_enqueue_neighbours_first(q, shots, cluster, i, k) ==
  IF cluster = <<>> THEN q
  ELSE LET r == cluster[1][1]
           c == cluster[1][2]
       IN BS_enqueue_target(
            BS_enqueue_target(
              BS_enqueue_target(
                BS_enqueue_target(q, shots, r + 1, c),
                shots, r - 1, c),
              shots, r, c + 1),
            shots, r, c - 1)

\* The closing loops of _enqueue_from_hit_cluster: the four neighbours of
\* every cluster cell, from cluster index i and direction index k on.
RECURSIVE BS_enqueue_neighbours(_, _, _, _, _)
BS_enqueue_neighbours(q, shots, cluster, i, k) ==
  IF i > Len(cluster) THEN q
  ELSE IF k > 4 THEN BS_enqueue_neighbours(q, shots, cluster, i + 1, 1)
  ELSE BS_enqueue_neighbours(
         BS_enqueue_target(q, shots, cluster[i][1] + BSDirs[k][1],
                           cluster[i][2] + BSDirs[k][2]),
         shots, cluster, i, k + 1)

SetMin(S) == CHOOSE x \in S : \A y \in S : x <= y

SetMax(S) == CHOOSE x \in S : \A y \in S : x >= y

\* _enqueue_from_hit_cluster without the two returns for a cluster in one
\* row or one column.
BS_enqueue_from_hit_cluster_probe(q, shots, r, c) ==
  BS_enqueue_neighbours(q, shots, BS_connected_hits(shots, r, c), 1, 1)

\* _enqueue_from_hit_cluster(r, c)
BS_enqueue_from_hit_cluster(q, shots, r, c) ==
  LET cluster == BS_connected_hits(shots, r, c)
      crows == {cluster[i][1] : i \in 1..Len(cluster)}
      ccols == {cluster[i][2] : i \in 1..Len(cluster)}
  IN IF Len(cluster) >= 2 /\ Cardinality(crows) = 1
     THEN LET row == CHOOSE x \in crows : TRUE
          IN BS_enqueue_target(
               BS_enqueue_target(q, shots, row, SetMin(ccols) - 1),
               shots, row, SetMax(ccols) + 1)
     ELSE IF Len(cluster) >= 2 /\ Cardinality(ccols) = 1
     THEN LET col == CHOOSE x \in ccols : TRUE
          IN BS_enqueue_target(
               BS_enqueue_target(q, shots, SetMin(crows) - 1, col),
               shots, SetMax(crows) + 1, col)
     ELSE BS_enqueue_neighbours(q, shots, cluster, 1, 1)

\* The while loop of _enemy_pick: pop queued cells until one is unfired.
RECURSIVE BS_pop_target(_, _)
BS_pop_target(q, shots) ==
  IF q.queue = <<>> THEN [found |-> FALSE, cell |-> <<0, 0>>, q |-> q]
  ELSE LET head == Head(q.queue)
           q2 == [queue |-> Tail(q.queue), set |-> q.set \ {head}]
       IN IF shots[head[1]][head[2]] = 0
          THEN [found |-> TRUE, cell |-> head, q |-> q2]
          ELSE BS_pop_target(q2, shots)

\* _enemy_pick taking any unfired cell of the queue, not the oldest.
BS_enemy_pick_any_queued(q, shots) ==
  LET live == {i \in 1..Len(q.queue) : shots[q.queue[i][1]][q.queue[i][2]] = 0}
      parity == {p \in BSCells : shots[p[1]][p[2]] = 0 /\ (p[1] + p[2]) % 2 = 0}
      options == {p \in BSCells : shots[p[1]][p[2]] = 0}
  IN IF live # {}
     THEN {[cell |-> q.queue[i],
            q |-> [queue |-> SubSeq(q.queue, 1, i - 1) \o SubSeq(q.queue, i + 1, Len(q.queue)),
                   set |-> q.set \ {q.queue[i]}]] : i \in live}
     ELSE IF parity # {} THEN {[cell |-> p, q |-> [queue |-> <<>>, set |-> {}]] : p \in parity}
     ELSE {[cell |-> p, q |-> [queue |-> <<>>, set |-> {}]] : p \in options}


\* _enemy_pick that hunts without looking at the queue.
BS_enemy_pick_hunt_only(q, shots) ==
  LET parity == {p \in BSCells : shots[p[1]][p[2]] = 0 /\ (p[1] + p[2]) % 2 = 0}
      options == {p \in BSCells : shots[p[1]][p[2]] = 0}
  IN IF parity # {} THEN {[cell |-> p, q |-> q] : p \in parity}
     ELSE {[cell |-> p, q |-> q] : p \in options}


\* _enemy_pick hunting over every cell of the grid, fired at or not.
BS_enemy_pick_refire(q, shots) ==
  LET popped == BS_pop_target(q, shots)
  IN IF popped.found THEN {[cell |-> popped.cell, q |-> popped.q]}
     ELSE {[cell |-> p, q |-> popped.q] : p \in BSCells}


\* _enemy_pick hunting over every unfired cell.
BS_enemy_pick_any(q, shots) ==
  LET popped == BS_pop_target(q, shots)
      options == {p \in BSCells : shots[p[1]][p[2]] = 0}
  IN IF popped.found THEN {[cell |-> popped.cell, q |-> popped.q]}
     ELSE {[cell |-> p, q |-> popped.q] : p \in options}


\* _enemy_pick: every (cell, targeting state) the call can return.  The
\* hunt shot is random.choice over the unfired parity cells, or over all
\* unfired cells when no parity cell is left.
BS_enemy_pick(q, shots) ==
  LET popped == BS_pop_target(q, shots)
      parity == {p \in BSCells : shots[p[1]][p[2]] = 0 /\ (p[1] + p[2]) % 2 = 0}
      options == {p \in BSCells : shots[p[1]][p[2]] = 0}
  IN IF popped.found THEN {[cell |-> popped.cell, q |-> popped.q]}
     ELSE IF parity # {} THEN {[cell |-> p, q |-> popped.q] : p \in parity}
     ELSE {[cell |-> p, q |-> popped.q] : p \in options}

BSEmptyTargets == [queue |-> <<>>, set |-> {}]

\* 2 if hit else 1, with every shot recorded as a hit.
BS_shot_mark_hit_only(hit) == 2

\* 2 if hit else 1: the mark a shot leaves in a shot grid.
BS_shot_mark(hit) == IF hit THEN 2 ELSE 1

\* _enemy_turn that keeps the target queue after a sinking.
BS_enemy_turn_no_clear(s, pick) ==
  LET r == pick.cell[1]
      c == pick.cell[2]
      hit == s.player_board[r][c] = 1
      shots == [rr \in BSRange |-> [cc \in BSRange |->
                  IF <<rr, cc>> = <<r, c>> THEN BS_shot_mark(hit) ELSE s.enemy_shots[rr][cc]]]
      ship_id == s.player_ship_ids[r][c]
      q1 == IF hit THEN BS_enqueue_from_hit_cluster(pick.q, shots, r, c) ELSE pick.q
      sunk == hit /\ ship_id > 0 /\ BS_is_ship_sunk(s.player_ship_ids, shots, ship_id)
      fresh == sunk /\ ship_id \notin s.cpu_sunk_ids
  IN [s |-> [s EXCEPT !.enemy_shots = shots,
                      !.target_queue = q1.queue,
                      !.target_set = q1.set,
                      !.cpu_sunk_ids = IF fresh THEN @ \cup {ship_id} ELSE @,
                      !.winner = IF BS_all_sunk(s.player_board, shots) THEN "cpu" ELSE @],
      hit |-> hit,
      cell |-> pick.cell,
      sunk |-> IF fresh THEN ship_id ELSE 0]


\* _enemy_turn that picks a cell and does not mark it in enemy_shots.
BS_enemy_turn_no_shot(s, pick) ==
  [s |-> s, hit |-> FALSE, cell |-> pick.cell, sunk |-> 0]

\* _enemy_turn after _enemy_pick returned pick: the engine state s after
\* the CPU's shot, with the values the call returns (sunk is the ship id
\* behind sunk_name, 0 for None).
BS_enemy_turn(s, pick) ==
  LET r == pick.cell[1]
      c == pick.cell[2]
      hit == s.player_board[r][c] = 1
      shots == [s.enemy_shots EXCEPT ![r][c] = BS_shot_mark(hit)]
      ship_id == s.player_ship_ids[r][c]
      q1 == IF hit THEN BS_enqueue_from_hit_cluster(pick.q, shots, r, c) ELSE pick.q
      sunk == hit /\ ship_id > 0 /\ BS_is_ship_sunk(s.player_ship_ids, shots, ship_id)
      fresh == sunk /\ ship_id \notin s.cpu_sunk_ids
      q2 == IF sunk THEN BSEmptyTargets ELSE q1
  IN [s |-> [s EXCEPT !.enemy_shots = shots,
                      !.target_queue = q2.queue,
                      !.target_set = q2.set,
                      !.cpu_sunk_ids = IF fresh THEN @ \cup {ship_id} ELSE @,
                      !.winner = IF BS_all_sunk(s.player_board, shots) THEN "cpu" ELSE @],
      hit |-> hit,
      cell |-> pick.cell,
      sunk |-> IF fresh THEN ship_id ELSE 0]

\* _fire past the ALREADY FIRED return: every engine state the player's
\* shot at the cursor can end in.
BS_fire_shot(s) ==
  LET r == s.sel_row
      c == s.sel_col
      hit == s.enemy_board[r][c] = 1
      shots == [s.player_shots EXCEPT ![r][c] = BS_shot_mark(hit)]
      ship_id == s.enemy_ship_ids[r][c]
      fresh == /\ hit
               /\ ship_id > 0
               /\ BS_is_ship_sunk(s.enemy_ship_ids, shots, ship_id)
               /\ ship_id \notin s.player_sunk_ids
      sunk_parts == IF fresh THEN <<[by |-> "you", ship |-> ship_id]>> ELSE <<>>
      s1 == [s EXCEPT !.player_shots = shots,
                      !.player_sunk_ids = IF fresh THEN @ \cup {ship_id} ELSE @]
  IN IF BS_all_sunk(s.enemy_board, shots)
     THEN {[s1 EXCEPT !.winner = "player",
                      !.last_message = BSMessage("you win", 0, <<<<r, c>>>>, <<hit>>, <<>>)]}
     ELSE {LET t == BS_enemy_turn(s1, pick)
           IN [t.s EXCEPT !.last_message =
                 BSMessage("fired", 0, <<<<r, c>>, t.cell>>, <<hit, t.hit>>,
                           sunk_parts \o (IF t.sunk > 0
                                          THEN <<[by |-> "I", ship |-> t.sunk]>>
                                          ELSE <<>>))] :
           pick \in BS_enemy_pick([queue |-> s1.target_queue, set |-> s1.target_set],
                                  s1.enemy_shots)}

\* _fire without the return on a cell that was fired at before.
BS_fire_unguarded(s) == BS_fire_shot(s)

\* _fire
BS_fire(s) ==
  IF s.player_shots[s.sel_row][s.sel_col] # 0
  THEN {[s EXCEPT !.last_message = BSMessage("ALREADY FIRED", 0, <<>>, <<>>, <<>>)]}
  ELSE BS_fire_shot(s)

\* _place_ship without the _can_place test.
BS_place_ship_unchecked(s) ==
  LET ship_idx == s.place_index
      length == SHIP_SIZES[ship_idx + 1]
  IN [s EXCEPT
        !.player_board = BS_do_place(@, s.sel_row, s.sel_col, length, s.orientation),
        !.player_ship_ids = BS_do_place_id(@, s.sel_row, s.sel_col, length,
                                           s.orientation, ship_idx + 1),
        !.place_index = @ + 1,
        !.last_message = BSMessage("placed", ship_idx + 1, <<>>, <<>>, <<>>),
        !.phase = IF s.place_index + 1 >= Len(SHIP_SIZES) THEN "attack" ELSE @]

\* _place_ship without the switch of phase to "attack".
BS_place_ship_no_attack(s) ==
  LET ship_idx == s.place_index
      length == SHIP_SIZES[ship_idx + 1]
  IN IF ~BS_can_place(s.player_board, s.sel_row, s.sel_col, length, s.orientation)
     THEN [s EXCEPT !.last_message = BSMessage("INVALID PLACEMENT", 0, <<>>, <<>>, <<>>)]
     ELSE [s EXCEPT
             !.player_board = BS_do_place(@, s.sel_row, s.sel_col, length, s.orientation),
             !.player_ship_ids = BS_do_place_id(@, s.sel_row, s.sel_col, length,
                                                s.orientation, ship_idx + 1),
             !.place_index = @ + 1,
             !.last_message = BSMessage("placed", ship_idx + 1, <<>>, <<>>, <<>>)]

\* _place_ship
BS_place_ship(s) ==
  LET ship_idx == s.place_index
      length == SHIP_SIZES[ship_idx + 1]
      end_row == s.sel_row + (IF s.orientation = "V" THEN length - 1 ELSE 0)
      end_col == s.sel_col + (IF s.orientation = "H" THEN length - 1 ELSE 0)
  IN IF ~BS_can_place(s.player_board, s.sel_row, s.sel_col, length, s.orientation)
     THEN [s EXCEPT !.last_message = BSMessage("INVALID PLACEMENT", 0, <<>>, <<>>, <<>>)]
     ELSE [s EXCEPT
             !.player_board = BS_do_place(@, s.sel_row, s.sel_col, length, s.orientation),
             !.player_ship_ids = BS_do_place_id(@, s.sel_row, s.sel_col, length,
                                                s.orientation, ship_idx + 1),
             !.place_index = @ + 1,
             !.last_message = BSMessage("placed", ship_idx + 1,
                                        <<<<s.sel_row, s.sel_col>>, <<end_row, end_col>>>>,
                                        <<>>, <<>>),
             !.phase = IF s.place_index + 1 >= Len(SHIP_SIZES) THEN "attack" ELSE @]

\* The engine state as one record, field by field.
BSState ==
  [player_board |-> bs_player_board, player_ship_ids |-> bs_player_ship_ids,
   enemy_board |-> bs_enemy_board, enemy_ship_ids |-> bs_enemy_ship_ids,
   player_shots |-> bs_player_shots, enemy_shots |-> bs_enemy_shots,
   place_index |-> bs_place_index, orientation |-> bs_orientation,
   sel_row |-> bs_sel_row, sel_col |-> bs_sel_col, phase |-> bs_phase,
   winner |-> bs_winner, last_message |-> bs_last_message,
   target_queue |-> bs_target_queue, target_set |-> bs_target_set,
   player_sunk_ids |-> bs_player_sunk_ids, cpu_sunk_ids |-> bs_cpu_sunk_ids]

\* handle_key past the winner check with f3 toggling in every phase.
BS_handle_key_keys_toggle_any(s, names) ==
  LET s1 == IF "panLeft" \in names THEN [s EXCEPT !.sel_col = (@ - 1) % bs_size] ELSE s
      s2 == IF "panRight" \in names THEN [s1 EXCEPT !.sel_col = (@ + 1) % bs_size] ELSE s1
      s3 == IF "f1" \in names THEN [s2 EXCEPT !.sel_row = (@ - 1) % bs_size] ELSE s2
      s4 == IF "f4" \in names THEN [s3 EXCEPT !.sel_row = (@ + 1) % bs_size] ELSE s3
      s5 == IF "f3" \in names
            THEN [s4 EXCEPT !.orientation = IF @ = "H" THEN "V" ELSE "H"]
            ELSE s4
  IN IF "f2" \in names
     THEN IF s5.phase = "place" THEN {BS_place_ship(s5)}
          ELSE IF s5.phase = "attack" THEN BS_fire(s5)
          ELSE {s5}
     ELSE {s5}

\* handle_key past the winner check: navigation, orientation toggle, confirm.
BS_handle_key_keys(s, names) ==
  LET s1 == IF "panLeft" \in names THEN [s EXCEPT !.sel_col = (@ - 1) % bs_size] ELSE s
      s2 == IF "panRight" \in names THEN [s1 EXCEPT !.sel_col = (@ + 1) % bs_size] ELSE s1
      s3 == IF "f1" \in names THEN [s2 EXCEPT !.sel_row = (@ - 1) % bs_size] ELSE s2
      s4 == IF "f4" \in names THEN [s3 EXCEPT !.sel_row = (@ + 1) % bs_size] ELSE s3
      s5 == IF "f3" \in names /\ s4.phase = "place"
            THEN [s4 EXCEPT !.orientation = IF @ = "H" THEN "V" ELSE "H"]
            ELSE s4
  IN IF "f2" \in names
     THEN IF s5.phase = "place" THEN {BS_place_ship(s5)}
          ELSE IF s5.phase = "attack" THEN BS_fire(s5)
          ELSE {s5}
     ELSE {s5}

\* handle_key without the return on a set winner.
BS_handle_key_unguarded(s, names) == BS_handle_key_keys(s, names)

\* handle_key(names): every engine state the call can end in.
BS_handle_key_results(s, names) ==
  IF Truthy(s.winner) THEN {s} ELSE BS_handle_key_keys(s, names)

\* handle_key(names)
BS_handle_key(names) ==
  /\ game = "bs"
  /\ \E res \in BS_handle_key_results(BSState, names) :
       /\ bs_player_board' = res.player_board
       /\ bs_player_ship_ids' = res.player_ship_ids
       /\ bs_enemy_board' = res.enemy_board
       /\ bs_enemy_ship_ids' = res.enemy_ship_ids
       /\ bs_player_shots' = res.player_shots
       /\ bs_enemy_shots' = res.enemy_shots
       /\ bs_place_index' = res.place_index
       /\ bs_orientation' = res.orientation
       /\ bs_sel_row' = res.sel_row
       /\ bs_sel_col' = res.sel_col
       /\ bs_phase' = res.phase
       /\ bs_winner' = res.winner
       /\ bs_last_message' = res.last_message
       /\ bs_target_queue' = res.target_queue
       /\ bs_target_set' = res.target_set
       /\ bs_player_sunk_ids' = res.player_sunk_ids
       /\ bs_cpu_sunk_ids' = res.cpu_sunk_ids
       /\ last' = Called("handle_key", names, FALSE,
                         \/ res.player_ship_ids # bs_player_ship_ids
                         \/ res.player_shots # bs_player_shots)
  /\ UNCHANGED <<game, ttt_vars, c4_vars, bs_size, bs_enemy_idx>>

\* Battleship(): __post_init__ runs reset(), whose _place_enemy_ships
\* call ends with the enemy grids e.
BS_reset(e) ==
  /\ bs_player_board = BSEmptyGrid
  /\ bs_player_ship_ids = BSEmptyGrid
  /\ bs_enemy_board = e.board
  /\ bs_enemy_ship_ids = e.ids
  /\ bs_player_shots = BSEmptyGrid
  /\ bs_enemy_shots = BSEmptyGrid
  /\ bs_place_index = 0
  /\ bs_orientation = "H"
  /\ bs_sel_row = 0
  /\ bs_sel_col = 0
  /\ bs_phase = "place"
  /\ bs_winner = None
  /\ bs_last_message = BSMessage("PLACE", 1, <<>>, <<>>, <<>>)
  /\ bs_target_queue = <<>>
  /\ bs_target_set = {}
  /\ bs_player_sunk_ids = {}
  /\ bs_cpu_sunk_ids = {}
  /\ bs_enemy_idx = Cardinality({e.ids[p[1]][p[2]] : p \in BSCells} \ {0})

\* One pass of the while loop of _place_enemy_ships for the ship of index
\* bs_enemy_idx, with the orientation and the origin that the three random
\* calls drew: the ship is placed if it fits, and the loop draws again if
\* it does not.
BS_place_enemy_trial(orientation, r, c) ==
  /\ game = "bs"
  /\ bs_enemy_idx < Len(SHIP_SIZES)
  /\ LET length == SHIP_SIZES[bs_enemy_idx + 1]
     IN IF BS_can_place(bs_enemy_board, r, c, length, orientation)
        THEN /\ bs_enemy_board' = BS_do_place(bs_enemy_board, r, c, length, orientation)
             /\ bs_enemy_ship_ids' =
                  BS_do_place_id(bs_enemy_ship_ids, r, c, length, orientation, bs_enemy_idx + 1)
             /\ bs_enemy_idx' = bs_enemy_idx + 1
        ELSE UNCHANGED <<bs_enemy_board, bs_enemy_ship_ids, bs_enemy_idx>>
  /\ UNCHANGED <<game, last, ttt_vars, c4_vars, bs_size, bs_player_board, bs_player_ship_ids,
                 bs_player_shots, bs_enemy_shots, bs_place_index, bs_orientation,
                 bs_sel_row, bs_sel_col, bs_phase, bs_winner, bs_last_message,
                 bs_target_queue, bs_target_set, bs_player_sunk_ids, bs_cpu_sunk_ids>>

\* The draws of one pass: random.choice(["H", "V"]) and two randrange calls.
BSPlaceEnemyNext ==
  \E orientation \in {"H", "V"} : \E r \in BSRange : \E c \in BSRange :
    /\ BS_place_enemy_trial(orientation, r, c)
    /\ UNCHANGED app_vars

\* The key batches explored: at most MaxBatch tokens in one batch.
BSKeyBatches == {names \in SUBSET BSKeys : Cardinality(names) <= MaxBatch}

BSNext ==
  \E names \in BSKeyBatches :
    /\ BS_handle_key(names)
    /\ UNCHANGED app_vars

\* The enemy grids with the given ships, each <<r, c, orientation>> in the
\* order of SHIP_SIZES, from ship index idx on.
RECURSIVE BSPlaced(_, _, _)
BSPlaced(e, ships, idx) ==
  IF idx > Len(ships) THEN e
  ELSE BSPlaced(
         [board |-> BS_do_place(e.board, ships[idx][1], ships[idx][2],
                                SHIP_SIZES[idx], ships[idx][3]),
          ids |-> BS_do_place_id(e.ids, ships[idx][1], ships[idx][2],
                                 SHIP_SIZES[idx], ships[idx][3], idx)],
         ships, idx + 1)

\* The enemy fleet that _place_enemy_ships drew in the games explored on
\* the grid of side HuntSize: the ship of three cells along the bottom row,
\* the ship of two cells in the last column.
BSHuntEnemy == BSPlaced(BSNoShips, <<<<3, 0, "H">>, <<1, 3, "V">>>>, 1)

\* The fleets the player places in the games explored on the grid of side
\* HuntSize, each ship <<r, c, orientation>> in the order of SHIP_SIZES.
BSHuntFleets ==
  { <<<<1, 1, "H">>, <<2, 1, "V">>>>,
    <<<<1, 0, "H">>, <<2, 2, "V">>>>,
    <<<<1, 0, "H">>, <<2, 1, "V">>>>,
    <<<<0, 2, "V">>, <<3, 0, "H">>>> }

\* The cells the player fires at in these games, one per confirm, each next
\* to the one before.  The twelfth shot sinks the last ship of BSHuntEnemy.
BSHuntLine ==
  << <<2, 1>>, <<2, 2>>, <<1, 2>>, <<1, 1>>, <<0, 0>>, <<0, 1>>, <<0, 2>>,
     <<1, 3>>, <<2, 3>>, <<3, 2>>, <<3, 1>>, <<3, 0>> >>

\* The fleets that agree with the ships the player has placed so far.
BSHuntFitting ==
  {f \in BSHuntFleets :
     \A i \in 1..bs_place_index :
       {c \in BSCells : bs_player_ship_ids[c[1]][c[2]] = i}
         = BSRun(f[i][1], f[i][2], SHIP_SIZES[i], f[i][3])}

\* The calls of these games.  While placing, the cursor and the orientation
\* move freely and a confirm is sent alone, on the next ship of a fleet; in
\* the attack phase every batch moves the cursor to the next cell of the
\* line and confirms there.
BSHuntNext ==
  \E names \in SUBSET BSKeys :
    /\ IF bs_phase = "place"
       THEN IF "f2" \in names
            THEN /\ names = {"f2"}
                 /\ \E f \in BSHuntFitting :
                      f[bs_place_index + 1] = <<bs_sel_row, bs_sel_col, bs_orientation>>
            ELSE Cardinality(names) <= MaxBatch
       ELSE "f2" \in names /\ "f3" \notin names
    /\ BS_handle_key(names)
    /\ UNCHANGED app_vars
    /\ (bs_phase = "attack" /\ bs_winner = None) =>
         LET k == Cardinality({c \in BSCells : bs_player_shots[c[1]][c[2]] # 0})
         IN k < Len(BSHuntLine) /\ <<bs_sel_row', bs_sel_col'>> = BSHuntLine[k + 1]

\* The human placed a mark in the last call and the AI has not answered.
TTTHumanJustPlaced == last.op = "handle_key" /\ last.changed

\* MENU_ITEMS and the menu entries: the items, then the link entry.
MENU_ITEMS == <<"Tic Tac Toe", "Connect 4", "Battleship", "Exit">>
MenuEntries == Len(MENU_ITEMS) + 1

\* The frame once start_game has run for the engine of game: game mode, no
\* CPU turn pending, no timer, the menu on the entry that was selected.
App_started ==
  /\ app_mode = "game"
  /\ app_menu_index = (CASE game = "ttt" -> 0 [] game = "c4" -> 1 [] OTHER -> 2)
  /\ app_cpu_pending = FALSE
  /\ app_cpu_timer = FALSE

\* __init__: an empty write queue, the writer thread waiting in get.
App_write_queue_init ==
  /\ app_write_queue = <<>>
  /\ app_ui_pc = "idle"
  /\ app_writer_pc = "get"
  /\ app_writer_job = 0
  /\ app_jobs = 0

\* start_game constructs one of the three engines.  The variables of the
\* other two keep the values of a fresh engine, the Battleship ones with no
\* enemy fleet drawn.
Init ==
  /\ game \in {"ttt", "c4", "bs"}
  /\ last = Called("reset", {}, FALSE, FALSE)
  /\ TTT_reset
  /\ \E size \in Connect4Sizes : Connect4_reset(size[1], size[2])
  /\ bs_size = GridSize
  /\ \E e \in (IF game = "bs" THEN BS_place_enemy_ships ELSE {BSNoShips}) : BS_reset(e)
  /\ App_started
  /\ App_write_queue_init

\* Any sequence of calls on the TicTacToe engine.  Out of turn, run_ai_turn
\* is explored on boards with at most MaxSearchCells empty cells.
TTTNext ==
  \/ /\ \E names \in SUBSET TTTKeys : TTT_handle_key(names)
     /\ UNCHANGED app_vars
  \/ /\ TTTEmpties(ttt_board) <= MaxSearchCells
     /\ TTT_run_ai_turn
     /\ UNCHANGED app_vars

\* A play as the session driver runs it: one human placement, then one
\* run_ai_turn call, from the empty board.
TTTPlayNext ==
  \/ /\ ~TTTHumanJustPlaced
     /\ \E names \in SUBSET TTTKeys : TTT_handle_key(names)
     /\ UNCHANGED app_vars
  \/ /\ TTTHumanJustPlaced
     /\ TTT_run_ai_turn
     /\ UNCHANGED app_vars

Next == TTTNext \/ Connect4Next \/ BSNext

Spec == Init /\ [][Next]_vars

\* start_game(0): a TicTacToe engine.
InitTTT == Init /\ game = "ttt"

\* start_game(1): a Connect4 engine.
InitC4 == Init /\ game = "c4"

\* start_game(2): a Battleship engine.
InitBS == Init /\ game = "bs"

SpecTTT == InitTTT /\ [][TTTNext]_vars

SpecTTTPlay == InitTTT /\ [][TTTPlayNext]_vars

SpecC4 == InitC4 /\ [][Connect4Next]_vars

SpecBS == InitBS /\ [][BSNext]_vars

\* Connect4 with every key sent in a call of its own.
Connect4KeyNext ==
  \E names \in SUBSET Connect4Keys :
    /\ Cardinality(names) <= 1
    /\ Connect4_handle_key(names)
    /\ UNCHANGED app_vars

SpecC4Key == InitC4 /\ [][Connect4KeyNext]_vars

\* Connect4(cols, rows) with the sizes of the given plays.
InitC4Plays(plays) ==
  /\ game = "c4"
  /\ last = Called("reset", {}, FALSE, FALSE)
  /\ TTT_reset
  /\ \E p \in plays : Connect4_reset(p.cols, p.rows)
  /\ bs_size = GridSize
  /\ BS_reset(BSNoShips)
  /\ App_started
  /\ App_write_queue_init

InitC4Tall == InitC4Plays(Connect4TallPlays)

InitC4Wide == InitC4Plays(Connect4WidePlays)

SpecC4Tall == InitC4Tall /\ [][Connect4PlayNext]_vars

SpecC4Wide == InitC4Wide /\ [][Connect4PlayNext]_vars

\* Battleship() on the grid of side HuntSize, with the enemy fleet BSHuntEnemy.
InitBSHunt ==
  /\ game = "bs"
  /\ last = Called("reset", {}, FALSE, FALSE)
  /\ TTT_reset
  /\ Connect4_reset(MaxCols, MaxRows)
  /\ bs_size = HuntSize
  /\ BS_reset(BSHuntEnemy)
  /\ App_started
  /\ App_write_queue_init

SpecBSHunt == InitBSHunt /\ [][BSHuntNext]_vars

\* Battleship() inside reset, as _place_enemy_ships starts on the grid of
\* side HuntSize: no enemy ship is placed yet.
InitBSReset ==
  /\ game = "bs"
  /\ last = Called("reset", {}, FALSE, FALSE)
  /\ TTT_reset
  /\ Connect4_reset(MaxCols, MaxRows)
  /\ bs_size = HuntSize
  /\ BS_reset(BSNoShips)
  /\ App_started
  /\ App_write_queue_init

\* The placement loop under fair draws: every pair of orientation and
\* origin keeps a positive chance in each pass, so a pass that places the
\* ship is taken at last if one exists.
SpecBSReset == InitBSReset /\ [][BSPlaceEnemyNext]_vars /\ WF_vars(BSPlaceEnemyNext)

(***************************************************************************)
(* Properties of TicTacToe                                                 *)
(***************************************************************************)
TTTCells == (0..2) \X (0..2)

\* Mark m fills one of the 8 lines of board b.
TTTOwnsLine(b, m) ==
  \/ \E r \in 0..2 : \A c \in 0..2 : b[r][c] = m
  \/ \E c \in 0..2 : \A r \in 0..2 : b[r][c] = m
  \/ \A i \in 0..2 : b[i][i] = m
  \/ \A i \in 0..2 : b[i][2 - i] = m

TTTSomeLine(b) == TTTOwnsLine(b, player_mark) \/ TTTOwnsLine(b, ai_mark)

\* The lines (indices into TTTLines) filled with a single mark.
TTTCompleteLines(b) == {i \in 1..8 : TTTLineComplete(b, i)}

TTTLineCells(i) ==
  {<<TTTLines[i][1], TTTLines[i][2]>>, <<TTTLines[i][3], TTTLines[i][4]>>,
   <<TTTLines[i][5], TTTLines[i][6]>>}

TTTCount(b, m) == Cardinality({p \in TTTCells : b[p[1]][p[2]] = m})

\* C1: in a play that alternates one human placement with one run_ai_turn
\* call from the empty board, winner is never the player mark, and a full
\* board ends with the AI mark or "draw".
C1_AiNeverLoses ==
  /\ ttt_winner # player_mark
  /\ ~TTTOwnsLine(ttt_board, player_mark)
  /\ TTTFull(ttt_board) => ttt_winner \in {ai_mark, "draw"}

C1_Witness ==
  /\ ttt_winner = "draw"
  /\ TTTCount(ttt_board, player_mark) = 5
  /\ TTTCount(ttt_board, ai_mark) = 4

\* C2: run_ai_turn called with winner set returns False and leaves board,
\* cursor and winner unchanged.
C2_AiTurnTerminalNoop ==
  [][(last'.op = "run_ai_turn" /\ ttt_winner # None)
       => (~last'.ret /\ UNCHANGED ttt_vars)]_vars

C2_Witness ==
  /\ last.op = "run_ai_turn"
  /\ ~last.ret
  /\ ttt_winner = player_mark

\* C3 as stated: of two run_ai_turn calls in succession the second returns
\* False, in terminal and in non-terminal states.
C3_SecondAiTurnReturnsFalse ==
  [][(last.op = "run_ai_turn" /\ last'.op = "run_ai_turn") => ~last'.ret]_vars

\* C5: winner classifies the board: None iff no line and an empty cell, a
\* mark iff that mark owns a line, "draw" iff full without a line; the two
\* marks never both own a line.
C5_Classification ==
  /\ (ttt_winner = None) <=> (~TTTSomeLine(ttt_board) /\ ~TTTFull(ttt_board))
  /\ \A m \in {player_mark, ai_mark} : (ttt_winner = m) <=> TTTOwnsLine(ttt_board, m)
  /\ (ttt_winner = "draw") <=> (TTTFull(ttt_board) /\ ~TTTSomeLine(ttt_board))
  /\ ~(TTTOwnsLine(ttt_board, player_mark) /\ TTTOwnsLine(ttt_board, ai_mark))

C5_Witness ==
  /\ ttt_winner = "draw"
  /\ TTTFull(ttt_board)
  /\ last.changed

\* C6 as stated: at most one of the 8 lines is filled with a single mark.
C6_AtMostOneLine == Cardinality(TTTCompleteLines(ttt_board)) <= 1

\* C6 as amended: all filled lines carry the same mark, which is the
\* winner, and pass through one common cell (one placement filled them).
C6_LinesShareMarkAndCell ==
  LET done == TTTCompleteLines(ttt_board)
  IN done # {} =>
       /\ ttt_winner \in {player_mark, ai_mark}
       /\ \A i \in done : ttt_board[TTTLines[i][1]][TTTLines[i][2]] = ttt_winner
       /\ \E p \in TTTCells : \A i \in done : p \in TTTLineCells(i)

C6_Witness == Cardinality(TTTCompleteLines(ttt_board)) >= 2

\* C7: a confirm on an occupied cursor cell changes neither board nor
\* winner, and no call ever overwrites a mark.
C7_OccupiedConfirmNoop ==
  [][/\ (/\ last'.op = "handle_key"
         /\ "f2" \in last'.names
         /\ ttt_board[ttt_sel_row'][ttt_sel_col'] # "")
        => (ttt_board' = ttt_board /\ ttt_winner' = ttt_winner)
     /\ \A p \in TTTCells :
          ttt_board[p[1]][p[2]] # "" => ttt_board'[p[1]][p[2]] = ttt_board[p[1]][p[2]]
    ]_vars

C7_Witness ==
  /\ last.op = "handle_key"
  /\ "f2" \in last.names
  /\ ~last.changed
  /\ ttt_winner = None
  /\ ttt_board[ttt_sel_row][ttt_sel_col] = ai_mark

\* The winner that belongs to board b.
TTTClassify(b) ==
  IF TTTOwnsLine(b, ai_mark) THEN ai_mark
  ELSE IF TTTOwnsLine(b, player_mark) THEN player_mark
  ELSE IF TTTFull(b) THEN "draw"
  ELSE None

\* C8: run_ai_turn in a non-terminal state returns True and turns exactly
\* one empty cell into the AI mark; the other cells and the cursor keep
\* their values and winner is the classification of the new board.
C8_AiTurnPlacesOneMark ==
  [][(last'.op = "run_ai_turn" /\ ttt_winner = None)
       => /\ last'.ret
          /\ \E p \in TTTCells :
               /\ ttt_board[p[1]][p[2]] = ""
               /\ ttt_board' = [ttt_board EXCEPT ![p[1]][p[2]] = ai_mark]
          /\ UNCHANGED <<ttt_sel_row, ttt_sel_col>>
          /\ ttt_winner' = TTTClassify(ttt_board')
    ]_vars

C8_Witness ==
  /\ last.op = "run_ai_turn"
  /\ last.ret
  /\ last.changed
  /\ ttt_winner = None

\* The full-depth minimax value of board b with the AI (maximizing) or the
\* player to move: +1 for a line of the AI, -1 for a line of the player, 0
\* for a full board, else the best value over the empty cells.
RECURSIVE TTTValue(_, _)
TTTValue(b, maximizing) ==
  IF TTTOwnsLine(b, ai_mark) THEN 1
  ELSE IF TTTOwnsLine(b, player_mark) THEN -1
  ELSE IF \A p \in TTTCells : b[p[1]][p[2]] # "" THEN 0
  ELSE LET vals == {TTTValue([b EXCEPT ![p[1]][p[2]] =
                                IF maximizing THEN ai_mark ELSE player_mark],
                             ~maximizing) :
                      p \in {q \in TTTCells : b[q[1]][q[2]] = ""}}
       IN IF maximizing THEN CHOOSE v \in vals : \A w \in vals : v >= w
          ELSE CHOOSE v \in vals : \A w \in vals : v <= w

\* The value of board b for the AI once its mark lies on the empty cell p.
TTTMoveValue(b, p) == TTTValue([b EXCEPT ![p[1]][p[2]] = ai_mark], FALSE)

\* The empty cells of b whose value is maximal.
TTTBestCells(b) ==
  LET vals == {<<p, TTTMoveValue(b, p)>> : p \in {q \in TTTCells : b[q[1]][q[2]] = ""}}
  IN {best[1] : best \in {v \in vals : \A w \in vals : v[2] >= w[2]}}

\* The first cell of S in row-major order.
TTTFirstCell(S) ==
  CHOOSE p \in S : \A q \in S : p[1] < q[1] \/ (p[1] = q[1] /\ p[2] <= q[2])

\* C26: in a non-terminal state run_ai_turn places the AI mark on the first
\* empty cell, in row-major order, among the empty cells of maximal
\* full-depth minimax value, and changes no other cell.
C26_AiMoveChoice ==
  [][(game = "ttt" /\ last'.op = "run_ai_turn" /\ ttt_winner = None)
       => LET p == TTTFirstCell(TTTBestCells(ttt_board))
          IN ttt_board' = [ttt_board EXCEPT ![p[1]][p[2]] = ai_mark]
    ]_vars

\* The player opened in the centre and the AI answered in the corner
\* (0, 0), the first of the four corners, which all draw.
C26_Witness ==
  /\ game = "ttt"
  /\ last.op = "run_ai_turn"
  /\ ttt_board[1][1] = player_mark
  /\ ttt_board[0][0] = ai_mark
  /\ TTTCount(ttt_board, "") = 7
  /\ TTTMoveValue([ttt_board EXCEPT ![0][0] = ""], <<0, 0>>)
       = TTTMoveValue([ttt_board EXCEPT ![0][0] = ""], <<2, 2>>)

(***************************************************************************)
(* Properties of Connect4                                                  *)
(***************************************************************************)
Connect4Cells == (0..(rows - 1)) \X (0..(cols - 1))

\* Number of tokens of player v on board b.
Connect4Count(b, v) == Cardinality({p \in Connect4Cells : b[p[1]][p[2]] = v})

\* C9: gravity.  A cell is occupied only if every cell below it in the
\* same column is occupied, in every reachable state.
C9_Gravity ==
  \A p \in Connect4Cells :
    c4_board[p[1]][p[2]] # 0 =>
      \A r \in (p[1] + 1)..(rows - 1) : c4_board[r][p[2]] # 0

\* An AI token lies on a human token, after a search with trial drops.
C9_Witness ==
  /\ game = "c4"
  /\ \E c \in 0..(cols - 1) :
       /\ c4_board[rows - 1][c] = 1
       /\ c4_board[rows - 2][c] = 2
  /\ Connect4Count(c4_board, 2) >= 2

\* C10: a confirm on a full selected column leaves board and winner
\* unchanged; in particular no AI token is added in that call.
C10_FullColumnConfirmNoop ==
  [][(/\ game = "c4"
      /\ last'.op = "handle_key"
      /\ "f2" \in last'.names
      /\ c4_board[0][c4_sel_col'] # 0)
       => (c4_board' = c4_board /\ c4_winner' = c4_winner)
    ]_vars

C10_Witness ==
  /\ game = "c4"
  /\ last.op = "handle_key"
  /\ "f2" \in last.names
  /\ ~last.changed
  /\ c4_winner = NoWinner
  /\ c4_board[0][c4_sel_col] # 0

\* Player v has four tokens in a row on board b: horizontally, vertically
\* or on one of the two diagonals.
Connect4Four(b, v) ==
  \E p \in Connect4Cells : \E d \in {<<0, 1>>, <<1, 0>>, <<1, 1>>, <<1, -1>>} :
    \A i \in 0..3 :
      /\ <<p[1] + i * d[1], p[2] + i * d[2]>> \in Connect4Cells
      /\ b[p[1] + i * d[1]][p[2] + i * d[2]] = v

\* Every cell of the top row of b is occupied.
Connect4Full(b) == \A c \in 0..(cols - 1) : b[0][c] # 0

\* The lowest empty cell of column c of board b (the column is not full).
Connect4Lowest(b, c) ==
  CHOOSE r \in 0..(rows - 1) :
    b[r][c] = 0 /\ \A q \in (r + 1)..(rows - 1) : b[q][c] # 0

\* The human drop a confirm makes on board b in column c.
Connect4HumanDrop(b, c) == [b EXCEPT ![Connect4Lowest(b, c)][c] = 1]

\* C11, the step: a confirm on a non-full column in a non-terminal state
\* adds one human token at the lowest empty cell of the selected column and,
\* iff that drop did not end the game, one AI token at the lowest empty cell
\* of a non-full column; no other cell changes.
C11_ConfirmStep ==
  (/\ game = "c4"
   /\ last'.op = "handle_key"
   /\ "f2" \in last'.names
   /\ c4_winner = NoWinner
   /\ c4_board[0][c4_sel_col'] = 0)
    => LET dropped == Connect4HumanDrop(c4_board, c4_sel_col')
           ended == Connect4Four(dropped, 1) \/ Connect4Full(dropped)
       IN IF ended THEN c4_board' = dropped
          ELSE \E c \in 0..(cols - 1) :
                 /\ dropped[0][c] = 0
                 /\ c4_board' = [dropped EXCEPT ![Connect4Lowest(dropped, c)][c] = 2]

\* C11, the balance: human tokens minus AI tokens is 0 or 1, and 0 while
\* winner is None.
C11_Balance ==
  LET diff == Connect4Count(c4_board, 1) - Connect4Count(c4_board, 2)
  IN /\ diff \in {0, 1}
     /\ c4_winner = NoWinner => diff = 0

\* C11: every confirm on a non-full column of a running game is one human
\* drop answered by exactly one AI drop unless the human drop ended the
\* game, and the token balance holds in every reachable state.
C11_ConfirmAddsHumanThenAi == [](game = "c4" => C11_Balance) /\ [][C11_ConfirmStep]_vars

\* A running game after two confirms that the AI answered.
C11_Witness ==
  /\ game = "c4"
  /\ last.op = "handle_key"
  /\ "f2" \in last.names
  /\ last.changed
  /\ c4_winner = NoWinner
  /\ Connect4Count(c4_board, 1) = 2
  /\ Connect4Count(c4_board, 2) = 2

\* C12: winner classifies the board in every reachable state: 1 (2) iff
\* the human (the AI) has four in a row in one of the four directions, -1
\* iff the top row is full and nobody has four in a row, None iff neither;
\* the human and the AI never both have four in a row.
C12_Classification ==
  LET human == Connect4Four(c4_board, 1)
      ai == Connect4Four(c4_board, 2)
      full == Connect4Full(c4_board)
  IN /\ (c4_winner = 1) <=> human
     /\ (c4_winner = 2) <=> ai
     /\ (c4_winner = -1) <=> (full /\ ~human /\ ~ai)
     /\ (c4_winner = NoWinner) <=> (~full /\ ~human /\ ~ai)
     /\ ~(human /\ ai)

\* The open blocking cells of board b: the empty cells in column 1 or 5
\* (index 0 or 4) of a row whose columns 2-4 hold three human tokens.
Connect4BlockingCells(b) ==
  {p \in Connect4Cells :
     /\ p[2] \in {0, 4}
     /\ b[p[1]][p[2]] = 0
     /\ \A c \in 1..3 : b[p[1]][c] = 1}

\* The columns in which a drop of player v makes four in a row on board b.
Connect4WinningDrops(b, v) ==
  {c \in 0..(cols - 1) :
     /\ b[0][c] = 0
     /\ Connect4Four([b EXCEPT ![Connect4Lowest(b, c)][c] = v], v)}

\* The call is a confirm whose human drop succeeded and left the game
\* running, so that the AI moves on the board after the drop.
Connect4AiToMove ==
  /\ game = "c4"
  /\ last'.op = "handle_key"
  /\ "f2" \in last'.names
  /\ c4_winner = NoWinner
  /\ c4_board[0][c4_sel_col'] = 0
  /\ LET dropped == Connect4HumanDrop(c4_board, c4_sel_col')
     IN ~Connect4Four(dropped, 1) /\ ~Connect4Full(dropped)

\* C13 as stated: whenever the AI moves on a board with an open blocking
\* cell, its token goes into an open blocking cell.
C13_AiBlocksOpenThree ==
  [][Connect4AiToMove =>
       LET open == Connect4BlockingCells(Connect4HumanDrop(c4_board, c4_sel_col'))
       IN open # {} => \E p \in open : c4_board'[p[1]][p[2]] = 2
    ]_vars

\* C13 as amended: an open blocking cell that is the lowest empty cell of
\* its column takes the AI's token when the AI has no winning drop itself,
\* the human has no winning drop in another column and none is left once
\* the AI's token lies in the blocking cell.
C13_AiBlocksPlayableThree ==
  [][Connect4AiToMove =>
       LET dropped == Connect4HumanDrop(c4_board, c4_sel_col')
       IN \A p \in Connect4BlockingCells(dropped) :
            (/\ Connect4Lowest(dropped, p[2]) = p[1]
             /\ Connect4WinningDrops(dropped, 2) = {}
             /\ Connect4WinningDrops(dropped, 1) = {p[2]}
             /\ Connect4WinningDrops([dropped EXCEPT ![p[1]][p[2]] = 2], 1) = {})
              => c4_board'[p[1]][p[2]] = 2
    ]_vars

\* On the 7x6 board the AI has just put its token into column 1 of the
\* bottom row, next to the human's tokens in columns 2-4.
C13_Witness ==
  /\ game = "c4"
  /\ cols = DefaultCols
  /\ rows = DefaultRows
  /\ last.op = "handle_key"
  /\ last.changed
  /\ c4_winner = NoWinner
  /\ \A c \in 1..3 : c4_board[rows - 1][c] = 1
  /\ c4_board[rows - 1][0] = 2
  /\ Connect4Count(c4_board, 2) = 3

\* The human has won on a board with four rows.
C12_Witness ==
  /\ game = "c4"
  /\ rows >= 4
  /\ c4_winner = 1
  /\ Connect4Four(c4_board, 1)

\* The value of board b under depth-limited minimax without pruning, with
\* the terminal and leaf scores of _minimax; Connect4PlainOver is the best
\* value over the non-full columns from c on, starting from acc.
RECURSIVE Connect4PlainValue(_, _, _)
RECURSIVE Connect4PlainOver(_, _, _, _, _)
Connect4PlainValue(b, depth, maximizing) ==
  IF Connect4Four(b, 2) THEN 1000000 + depth
  ELSE IF Connect4Four(b, 1) THEN (0 - 1000000) - depth
  ELSE IF Connect4Full(b) THEN 0
  ELSE IF depth <= 0 THEN Connect4_evaluate_position(b)
  ELSE Connect4PlainOver(b, depth, maximizing, 0, IF maximizing THEN 0 - inf ELSE inf)

Connect4PlainOver(b, depth, maximizing, c, acc) ==
  IF c >= cols THEN acc
  ELSE IF b[0][c] # 0 THEN Connect4PlainOver(b, depth, maximizing, c + 1, acc)
  ELSE LET v == Connect4PlainValue(
                  [b EXCEPT ![Connect4Lowest(b, c)][c] = IF maximizing THEN 2 ELSE 1],
                  depth - 1, ~maximizing)
           best == IF maximizing THEN (IF v > acc THEN v ELSE acc)
                   ELSE (IF v < acc THEN v ELSE acc)
       IN IF best = acc
          THEN Connect4PlainOver(b, depth, maximizing, c + 1, acc)
          ELSE Connect4PlainOver(b, depth, maximizing, c + 1, best)

\* The place of column c in the order center, center-1, center+1, ...
Connect4CenterRank(c) ==
  LET center == cols \div 2
  IN IF c = center THEN 0
     ELSE IF c < center THEN 2 * (center - c) - 1
     ELSE 2 * (c - center)

\* The search depth of _ai_move on board b.
Connect4SearchDepth(b) ==
  IF Cardinality({p \in Connect4Cells : b[p[1]][p[2]] = 0}) <= 20 THEN 6 ELSE 5

\* The pairs <<c, value>> of a non-full column c of b and the value, under
\* the unpruned search of the depth _ai_move uses, of the AI's drop in c.
Connect4PlainValues(b) ==
  {<<c, Connect4PlainValue([b EXCEPT ![Connect4Lowest(b, c)][c] = 2],
                           Connect4SearchDepth(b) - 1, FALSE)>> :
     c \in {d \in 0..(cols - 1) : b[0][d] = 0}}

\* Pair p is the first, in center-outward order, of the pairs of vals with
\* the maximal value.
Connect4FirstBest(vals, p) ==
  /\ p \in vals
  /\ \A q \in vals :
       /\ q[2] <= p[2]
       /\ q[2] = p[2] => Connect4CenterRank(p[1]) <= Connect4CenterRank(q[1])

\* C27: whenever the AI moves, its token goes into the first column, in
\* center-outward order among the non-full columns, whose value under plain
\* depth-limited minimax without pruning is maximal.
C27_RootEqualsUnpruned ==
  [][Connect4AiToMove =>
       LET dropped == Connect4HumanDrop(c4_board, c4_sel_col')
       IN \E vals \in {Connect4PlainValues(dropped)} : \E p \in vals :
            /\ Connect4FirstBest(vals, p)
            /\ c4_board' = [dropped EXCEPT ![Connect4Lowest(dropped, p[1])][p[1]] = 2]]_vars

\* The AI has answered the human's first token in the center column by the
\* token above it, every column having the same value under the unpruned
\* search.
C27_Witness ==
  /\ game = "c4"
  /\ cols = MaxCols
  /\ rows = MaxRows
  /\ last.op = "handle_key"
  /\ last.changed
  /\ c4_winner = NoWinner
  /\ Connect4Count(c4_board, 1) = 1
  /\ Connect4Count(c4_board, 2) = 1
  /\ c4_sel_col = cols \div 2
  /\ c4_board[rows - 1][cols \div 2] = 1
  /\ c4_board[rows - 2][cols \div 2] = 2
  /\ LET dropped == [c4_board EXCEPT ![rows - 2][cols \div 2] = 0]
     IN \E vals \in {Connect4PlainValues(dropped)} :
          /\ Cardinality(vals) = cols
          /\ \A p, q \in vals : p[2] = q[2]

\* C28: whenever the AI is to move and a drop in some non-full column would
\* complete four AI tokens in a row, the AI's move completes a four in a row
\* and winner is 2 after the call.
C28_AiTakesImmediateWin ==
  [][(/\ Connect4AiToMove
      /\ Connect4WinningDrops(Connect4HumanDrop(c4_board, c4_sel_col'), 2) # {})
       => (/\ c4_winner' = 2
           /\ Connect4Four(c4_board', 2)
           /\ Connect4Count(c4_board', 2) = Connect4Count(c4_board, 2) + 1)]_vars

\* The AI has just won by a token that completed four in a row, none of
\* its fours lying in a row of the board.
C28_Witness ==
  /\ game = "c4"
  /\ last.op = "handle_key"
  /\ "f2" \in last.names
  /\ last.changed
  /\ c4_winner = 2
  /\ Connect4Four(c4_board, 2)
  /\ Connect4Count(c4_board, 2) = Connect4Count(c4_board, 1)
  /\ ~\E p \in Connect4Cells : \A i \in 0..3 :
        /\ <<p[1], p[2] + i>> \in Connect4Cells
        /\ c4_board[p[1]][p[2] + i] = 2

(***************************************************************************)
(* Properties of Battleship.  The claims speak of the 10x10 grid and the   *)
(* fleet 5, 4, 3, 3, 2; they are stated for the GridSize x GridSize grid    *)
(* and the fleet SHIP_SIZES of the model.                                  *)
(***************************************************************************)
\* The engine states a handle_key call with the batch names can end in,
\* from the current state.
BSOutcomes(names) == BS_handle_key_results(BSState, names)

\* A property of the calls of handle_key is stated on a state as a property
\* of every call from it: names is the batch of the call, one of
\* BSKeyBatches, and res an engine state the call can end in, one of
\* BSOutcomes(names); the engine state before the call is the current one.

\* The call is a confirm in the placement phase.
BSPlaceConfirm(names) ==
  /\ game = "bs"
  /\ "f2" \in names
  /\ bs_winner = None
  /\ bs_phase = "place"

\* The run of the ship a placement confirm is about: the current length,
\* from the cursor along the orientation, both as the call's navigation and
\* toggle tokens left them.
BSConfirmRun(res) ==
  BSRun(res.sel_row, res.sel_col, SHIP_SIZES[bs_place_index + 1], res.orientation)

\* The run leaves the grid or covers an occupied cell of the player's grid.
BSRunIllegal(run) ==
  \/ ~(run \subseteq BSCells)
  \/ \E p \in run \cap BSCells : bs_player_board[p[1]][p[2]] # 0

\* C14: a placement confirm whose run leaves the grid or covers an occupied
\* cell sets last_message to "INVALID PLACEMENT" and leaves place_index,
\* phase, player_board and player_ship_ids unchanged.
C14_IllegalPlacementRejected ==
  game = "bs" =>
    \A names \in BSKeyBatches : \A res \in BSOutcomes(names) :
      (BSPlaceConfirm(names) /\ BSRunIllegal(BSConfirmRun(res)))
        => /\ res.last_message.kind = "INVALID PLACEMENT"
           /\ res.place_index = bs_place_index
           /\ res.phase = bs_phase
           /\ res.player_board = bs_player_board
           /\ res.player_ship_ids = bs_player_ship_ids

\* The second ship was refused on a cell of the first one.
C14_Witness ==
  /\ game = "bs"
  /\ last.op = "handle_key"
  /\ "f2" \in last.names
  /\ bs_last_message.kind = "INVALID PLACEMENT"
  /\ bs_place_index = 1
  /\ bs_player_ship_ids[bs_sel_row][bs_sel_col] = 1

\* Grid g with value v written into the cells of run.
BSStamp(g, run, v) ==
  [r \in BSRange |-> [c \in BSRange |-> IF <<r, c>> \in run THEN v ELSE g[r][c]]]

\* C15: a legal placement confirm writes ship id place_index+1 into exactly
\* the cells of the run and 1 into the same cells of player_board, adds 1 to
\* place_index, and changes no other cell of the player's grids, nothing on
\* the enemy grids and nothing on the shot grids.
C15_LegalPlacementStamps ==
  game = "bs" =>
    \A names \in BSKeyBatches : \A res \in BSOutcomes(names) :
      (BSPlaceConfirm(names) /\ ~BSRunIllegal(BSConfirmRun(res)))
        => /\ Cardinality(BSConfirmRun(res)) = SHIP_SIZES[bs_place_index + 1]
           /\ res.player_ship_ids =
                BSStamp(bs_player_ship_ids, BSConfirmRun(res), bs_place_index + 1)
           /\ res.player_board = BSStamp(bs_player_board, BSConfirmRun(res), 1)
           /\ res.place_index = bs_place_index + 1
           /\ res.enemy_board = bs_enemy_board
           /\ res.enemy_ship_ids = bs_enemy_ship_ids
           /\ res.player_shots = bs_player_shots
           /\ res.enemy_shots = bs_enemy_shots

\* The last ship has just been placed, vertically.
C15_Witness ==
  /\ game = "bs"
  /\ last.op = "handle_key"
  /\ "f2" \in last.names
  /\ last.changed
  /\ bs_last_message.kind = "placed"
  /\ bs_orientation = "V"
  /\ bs_place_index = Len(SHIP_SIZES)

\* The cells of grid ids that carry ship id i.
BSShipCells(ids, i) == {p \in BSCells : ids[p[1]][p[2]] = i}

\* The ship grid pair (board, ids) holds exactly the ships 1..n: each is one
\* straight run of its length inside the grid, and board marks the cells
\* that carry an id.
BSShipGrid(board, ids, n) ==
  /\ \A p \in BSCells :
       /\ ids[p[1]][p[2]] \in 0..n
       /\ board[p[1]][p[2]] \in {0, 1}
       /\ board[p[1]][p[2]] = 1 <=> ids[p[1]][p[2]] > 0
  /\ \A i \in 1..n :
       /\ Cardinality(BSShipCells(ids, i)) = SHIP_SIZES[i]
       /\ \E o \in {"H", "V"} : \E p \in BSCells :
            BSShipCells(ids, i) = BSRun(p[1], p[2], SHIP_SIZES[i], o)

RECURSIVE BSSum(_, _)
BSSum(sizes, i) == IF i > Len(sizes) THEN 0 ELSE sizes[i] + BSSum(sizes, i + 1)

\* C16: the player's grid holds the ships placed so far and the enemy's grid
\* the whole fleet, each ship one straight contiguous run of its length
\* inside the grid, no cell in two ships, board = 1 exactly on the cells with
\* a ship id; the enemy grid has as many ship cells as the fleet has segments.
C16_ShipGrids ==
  game = "bs" =>
    /\ BSShipGrid(bs_player_board, bs_player_ship_ids, bs_place_index)
    /\ BSShipGrid(bs_enemy_board, bs_enemy_ship_ids, Len(SHIP_SIZES))
    /\ Cardinality({p \in BSCells : bs_enemy_board[p[1]][p[2]] = 1}) = BSSum(SHIP_SIZES, 1)

\* Both fleets are placed, the player's first ship vertically.
C16_Witness ==
  /\ game = "bs"
  /\ bs_place_index = Len(SHIP_SIZES)
  /\ BSShipCells(bs_player_ship_ids, 1) = {<<0, 1>>, <<1, 1>>}
  /\ BSShipCells(bs_player_ship_ids, 2) # {}

\* C17, the states: phase is "place" iff place_index is below the number of
\* ships and "attack" iff it equals it.
C17_PhaseOfIndex ==
  /\ bs_phase \in {"place", "attack"}
  /\ bs_place_index \in 0..Len(SHIP_SIZES)
  /\ bs_phase = "place" <=> bs_place_index < Len(SHIP_SIZES)
  /\ bs_phase = "attack" <=> bs_place_index = Len(SHIP_SIZES)

\* C17, the steps: place_index never decreases and grows by one ship at a
\* time, the ship placed at index i has the i-th length of the fleet, and
\* phase "attack" is never left.
C17_PhaseStep(res) ==
  /\ res.place_index \in {bs_place_index, bs_place_index + 1}
  /\ res.place_index = bs_place_index + 1 =>
       /\ BSShipCells(bs_player_ship_ids, res.place_index) = {}
       /\ Cardinality(BSShipCells(res.player_ship_ids, res.place_index))
            = SHIP_SIZES[res.place_index]
  /\ bs_phase = "attack" => res.phase = "attack"

\* C17: the phase machine.  phase follows place_index, place_index only
\* grows, the ships are placed in the order of SHIP_SIZES, and no call
\* returns from "attack" to "place".
C17_PhaseMachine ==
  game = "bs" =>
    /\ C17_PhaseOfIndex
    /\ \A names \in BSKeyBatches : \A res \in BSOutcomes(names) : C17_PhaseStep(res)

\* The placement of the last ship has just switched the phase.
C17_Witness ==
  /\ game = "bs"
  /\ bs_phase = "attack"
  /\ bs_last_message.kind = "placed"
  /\ bs_last_message.ship = Len(SHIP_SIZES)

\* C18, the placement phase: no shot is recorded on either shot grid, the
\* target queue is empty and winner is None.
C18_NoShotWhilePlacing ==
  bs_phase = "place" =>
    /\ bs_player_shots = BSEmptyGrid
    /\ bs_enemy_shots = BSEmptyGrid
    /\ bs_target_queue = <<>>
    /\ bs_target_set = {}
    /\ bs_winner = None

\* C18: while phase is "place" nothing was fired, and while phase is
\* "attack" no call changes player_board, player_ship_ids, place_index or
\* orientation.
C18_PhaseGating ==
  game = "bs" =>
    /\ C18_NoShotWhilePlacing
    /\ \A names \in BSKeyBatches : \A res \in BSOutcomes(names) :
         bs_phase = "attack" =>
           /\ res.player_board = bs_player_board
           /\ res.player_ship_ids = bs_player_ship_ids
           /\ res.place_index = bs_place_index
           /\ res.orientation = bs_orientation

\* A batch with the toggle and the confirm was sent in the attack phase and
\* fired a shot.
C18_Witness ==
  /\ game = "bs"
  /\ bs_phase = "attack"
  /\ last.op = "handle_key"
  /\ last.names = {"f2", "f3"}
  /\ last.changed

\* The call is a confirm in the attack phase on a cell of player_shots that
\* is already Miss or Hit.
BSRepeatFire(names, res) ==
  /\ game = "bs"
  /\ "f2" \in names
  /\ bs_phase = "attack"
  /\ bs_player_shots[res.sel_row][res.sel_col] # 0

\* What a repeated shot leaves alone: the shot grids, the target queue, the
\* sunk sets and winner.
BSRepeatFireFrame(res) ==
  /\ res.player_shots = bs_player_shots
  /\ res.enemy_shots = bs_enemy_shots
  /\ res.target_queue = bs_target_queue
  /\ res.target_set = bs_target_set
  /\ res.player_sunk_ids = bs_player_sunk_ids
  /\ res.cpu_sunk_ids = bs_cpu_sunk_ids
  /\ res.winner = bs_winner

\* C19 as stated: every confirm in the attack phase on a cell fired at
\* before sets last_message to "ALREADY FIRED" and changes nothing else.
C19_RepeatFireAlways ==
  game = "bs" =>
    \A names \in BSKeyBatches : \A res \in BSOutcomes(names) :
      BSRepeatFire(names, res) =>
        (res.last_message.kind = "ALREADY FIRED" /\ BSRepeatFireFrame(res))

\* C19 as amended: while winner is None such a confirm sets last_message to
\* "ALREADY FIRED"; once winner is set last_message keeps its value; in both
\* cases the shot grids, the target queue, the sunk sets and winner are
\* unchanged (the CPU does not fire).
C19_RepeatFireWhileRunning ==
  game = "bs" =>
    \A names \in BSKeyBatches : \A res \in BSOutcomes(names) :
      BSRepeatFire(names, res) =>
        /\ BSRepeatFireFrame(res)
        /\ res.last_message.kind = IF bs_winner = None THEN "ALREADY FIRED"
                                   ELSE bs_last_message.kind
        /\ bs_winner # None => res.last_message = bs_last_message

\* The player fired twice at a cell and the second confirm was refused.
C19_Witness ==
  /\ game = "bs"
  /\ last.op = "handle_key"
  /\ "f2" \in last.names
  /\ bs_last_message.kind = "ALREADY FIRED"
  /\ bs_player_shots[bs_sel_row][bs_sel_col] = 2
  /\ bs_winner = None

\* Shot grid shots agrees with the opposing ship grid ships: Hit on ship
\* cells only, Miss on empty cells only.
BSShotsAgree(shots, ships) ==
  \A p \in BSCells :
    /\ shots[p[1]][p[2]] \in {0, 1, 2}
    /\ shots[p[1]][p[2]] = 2 => ships[p[1]][p[2]] = 1
    /\ shots[p[1]][p[2]] = 1 => ships[p[1]][p[2]] = 0

\* A cell of a shot grid that is Miss or Hit keeps its value.
BSShotsKept(shots, shots2) ==
  \A p \in BSCells : shots[p[1]][p[2]] # 0 => shots2[p[1]][p[2]] = shots[p[1]][p[2]]

\* C20: on both shot grids a cell only goes from Unknown to Miss or Hit and
\* then keeps its value, and a fired cell is Hit iff the opposing ship grid
\* has a ship on it and Miss iff it has none.
C20_ShotGridMonotonic ==
  game = "bs" =>
    /\ BSShotsAgree(bs_player_shots, bs_enemy_board)
    /\ BSShotsAgree(bs_enemy_shots, bs_player_board)
    /\ \A names \in BSKeyBatches : \A res \in BSOutcomes(names) :
         /\ BSShotsKept(bs_player_shots, res.player_shots)
         /\ BSShotsKept(bs_enemy_shots, res.enemy_shots)

\* Both sides have a hit and a miss on their shot grids.
C20_Witness ==
  /\ game = "bs"
  /\ \E p, q \in BSCells : bs_player_shots[p[1]][p[2]] = 2 /\ bs_player_shots[q[1]][q[2]] = 1
  /\ \E p, q \in BSCells : bs_enemy_shots[p[1]][p[2]] = 2 /\ bs_enemy_shots[q[1]][q[2]] = 1

\* The cells of a shot grid that were fired at.
BSFired(shots) == {p \in BSCells : shots[p[1]][p[2]] # 0}

\* Every ship cell of the grid ships is Hit in the shot grid shots.
BSAllHit(ships, shots) ==
  \A p \in BSCells : ships[p[1]][p[2]] = 1 => shots[p[1]][p[2]] = 2

\* The call fired a valid player shot: a cell of player_shots left Unknown.
BSValidShot(res) == game = "bs" /\ res.player_shots # bs_player_shots

\* A valid player shot marks one cell; the CPU answers with one shot in the
\* same call unless the shot hit the last enemy ship cell, and then winner
\* is "player" and enemy_shots is unchanged.  The CPU fires in no other call.
C21_ShotStep(res) ==
  LET mine == BSFired(res.player_shots) \ BSFired(bs_player_shots)
      theirs == BSFired(res.enemy_shots) \ BSFired(bs_enemy_shots)
  IN /\ BSValidShot(res) =>
          /\ Cardinality(mine) = 1
          /\ IF BSAllHit(bs_enemy_board, res.player_shots)
             THEN res.winner = "player" /\ res.enemy_shots = bs_enemy_shots
             ELSE res.winner # "player" /\ Cardinality(theirs) = 1
     /\ ~BSValidShot(res) => res.enemy_shots = bs_enemy_shots

\* enemy_shots has as many fired cells as player_shots, one less exactly
\* when winner is "player".
C21_Balance ==
  Cardinality(BSFired(bs_enemy_shots)) =
    Cardinality(BSFired(bs_player_shots)) - (IF bs_winner = "player" THEN 1 ELSE 0)

\* C21: every valid player shot is answered in the same handle_key call by
\* exactly one CPU shot, except the shot that hits the last enemy ship cell,
\* which sets winner to "player" without a CPU shot; so the fired cells of
\* enemy_shots number those of player_shots, minus 1 exactly when winner is
\* "player".
C21_TurnPairing ==
  game = "bs" =>
    /\ C21_Balance
    /\ \A names \in BSKeyBatches : \A res \in BSOutcomes(names) : C21_ShotStep(res)

\* The player has won with the last of at least three shots, two of which
\* the CPU answered.
C21_Witness ==
  /\ game = "bs"
  /\ bs_winner = "player"
  /\ last.op = "handle_key"
  /\ last.changed
  /\ Cardinality(BSFired(bs_player_shots)) >= 3
  /\ Cardinality(BSFired(bs_enemy_shots)) = Cardinality(BSFired(bs_player_shots)) - 1

\* The ship ids stamped on an id grid.
BSShipIds(ids) == {ids[p[1]][p[2]] : p \in BSCells} \ {0}

\* Every cell of ship i on the id grid ids is Hit in the shot grid shots.
BSShipHit(ids, shots, i) ==
  \A p \in BSCells : ids[p[1]][p[2]] = i => shots[p[1]][p[2]] = 2

\* The ships that the sunk parts of a message announce for one side.
BSAnnounced(msg, by) ==
  {msg.sunk[k].ship : k \in {j \in 1..Len(msg.sunk) : msg.sunk[j].by = by}}

\* A sunk set holds the ships of the id grid whose cells are all Hit.
C22_SunkSets ==
  /\ bs_player_sunk_ids =
       {i \in BSShipIds(bs_enemy_ship_ids) : BSShipHit(bs_enemy_ship_ids, bs_player_shots, i)}
  /\ bs_cpu_sunk_ids =
       {i \in BSShipIds(bs_player_ship_ids) : BSShipHit(bs_player_ship_ids, bs_enemy_shots, i)}

\* The sunk sets only grow, and the message of a shot announces exactly the
\* ships that entered a sunk set with that shot.
C22_SunkStep(res) ==
  /\ bs_player_sunk_ids \subseteq res.player_sunk_ids
  /\ bs_cpu_sunk_ids \subseteq res.cpu_sunk_ids
  /\ BSValidShot(res) =>
       /\ BSAnnounced(res.last_message, "you") = res.player_sunk_ids \ bs_player_sunk_ids
       /\ BSAnnounced(res.last_message, "I") = res.cpu_sunk_ids \ bs_cpu_sunk_ids
  /\ ~BSValidShot(res) =>
       /\ res.player_sunk_ids = bs_player_sunk_ids
       /\ res.cpu_sunk_ids = bs_cpu_sunk_ids

\* C22: a ship id is in _player_sunk_ids iff every enemy cell of the ship is
\* Hit in player_shots and in _cpu_sunk_ids iff every player cell of the ship
\* is Hit in enemy_shots; both sets only grow; the sunk announcement of a
\* ship is emitted by the shot that hits its last cell and by no other.
C22_SunkTracking ==
  game = "bs" =>
    /\ C22_SunkSets
    /\ \A names \in BSKeyBatches : \A res \in BSOutcomes(names) : C22_SunkStep(res)

\* C23 as stated: winner is "player" iff every enemy ship cell is Hit, "cpu"
\* iff every player ship cell is Hit, None otherwise, and the two conditions
\* never hold together.
C23_TerminalMatchesGrids ==
  game = "bs" =>
    /\ bs_winner \in {None, "player", "cpu"}
    /\ bs_winner = "player" <=> BSAllHit(bs_enemy_board, bs_player_shots)
    /\ bs_winner = "cpu" <=> BSAllHit(bs_player_board, bs_enemy_shots)
    /\ ~(BSAllHit(bs_enemy_board, bs_player_shots) /\ BSAllHit(bs_player_board, bs_enemy_shots))

\* The player has a ship on the grid and every cell of the player's ships
\* is Hit in enemy_shots.
BSPlayerFleetHit ==
  /\ \E p \in BSCells : bs_player_board[p[1]][p[2]] = 1
  /\ BSAllHit(bs_player_board, bs_enemy_shots)

\* C23 as amended: winner is "player" iff every enemy ship cell is Hit,
\* "cpu" iff the player has placed a ship and every player ship cell is Hit,
\* None otherwise, and the two conditions never hold together.
C23_TerminalMatchesPlacedGrids ==
  game = "bs" =>
    /\ bs_winner \in {None, "player", "cpu"}
    /\ bs_winner = "player" <=> BSAllHit(bs_enemy_board, bs_player_shots)
    /\ bs_winner = "cpu" <=> BSPlayerFleetHit
    /\ ~(BSAllHit(bs_enemy_board, bs_player_shots) /\ BSPlayerFleetHit)

\* The CPU has won a game in which the player hit an enemy ship.
C23_Witness ==
  /\ game = "bs"
  /\ bs_winner = "cpu"
  /\ BSPlayerFleetHit
  /\ \E p \in BSCells : bs_player_shots[p[1]][p[2]] = 2

\* The orthogonal neighbours of the cell p on the grid.
BSNeighbours(p) ==
  {q \in BSCells : (q[1] = p[1] /\ (q[2] = p[2] + 1 \/ q[2] = p[2] - 1))
                     \/ (q[2] = p[2] /\ (q[1] = p[1] + 1 \/ q[1] = p[1] - 1))}

\* The cells held by a target queue.
BSQueued(queue) == {queue[i] : i \in 1..Len(queue)}

\* The call holds a CPU shot that hits the cell p.
BSCpuHits(p) ==
  /\ game = "bs"
  /\ bs_enemy_shots[p[1]][p[2]] = 0
  /\ bs_enemy_shots'[p[1]][p[2]] = 2

\* The target queue after the call holds the cells of S, each once, and the
\* membership set agrees with it.
BSQueueIs(S) ==
  /\ BSQueued(bs_target_queue') = S
  /\ Len(bs_target_queue') = Cardinality(S)
  /\ bs_target_set' = S

\* C24: when a CPU shot hits (r, c) and no orthogonal neighbour of (r, c)
\* was a Hit in enemy_shots before, the target queue after the shot holds
\* exactly the in-bounds orthogonal neighbours of (r, c) that are not fired
\* at, and nothing else.
C24_IsolatedHitQueue ==
  [][\A p \in BSCells :
       (BSCpuHits(p) /\ \A q \in BSNeighbours(p) : bs_enemy_shots[q[1]][q[2]] # 2)
         => BSQueueIs({q \in BSNeighbours(p) : bs_enemy_shots'[q[1]][q[2]] = 0})
    ]_vars

\* The CPU's only hit so far has three unfired neighbours in the queue and
\* a fourth neighbour that was a miss before the hit.
C24_Witness ==
  /\ game = "bs"
  /\ bs_size = HuntSize
  /\ bs_winner = None
  /\ \E p \in BSCells :
       /\ \A q \in BSCells : bs_enemy_shots[q[1]][q[2]] = 2 <=> q = p
       /\ Cardinality(BSNeighbours(p)) = 4
       /\ \E m \in BSNeighbours(p) :
            /\ bs_enemy_shots[m[1]][m[2]] = 1
            /\ BSQueued(bs_target_queue) = BSNeighbours(p) \ {m}
            /\ Len(bs_target_queue) = 3

\* The Hit cells of a shot grid connected to the cells of S through
\* orthogonal neighbours that are Hit.
RECURSIVE BSCluster(_, _)
BSCluster(shots, S) ==
  LET T == S \cup {q \in BSCells : /\ shots[q[1]][q[2]] = 2
                                   /\ \E s \in S : q \in BSNeighbours(s)}
  IN IF T = S THEN S ELSE BSCluster(shots, T)

\* The two cells beyond the ends of a run of cells in one row or one column.
BSExtensions(run) ==
  LET rs == {p[1] : p \in run}
      cs == {p[2] : p \in run}
  IN IF Cardinality(rs) = 1
     THEN {<<r, SetMin(cs) - 1>> : r \in rs} \cup {<<r, SetMax(cs) + 1>> : r \in rs}
     ELSE {<<SetMin(rs) - 1, c>> : c \in cs} \cup {<<SetMax(rs) + 1, c>> : c \in cs}

\* The cells of S that are on the grid and not fired at after the call.
BSOpen(S) == {q \in S \cap BSCells : bs_enemy_shots'[q[1]][q[2]] = 0}

\* The call holds a CPU shot that sinks a ship of the player.
BSCpuSinks == bs_cpu_sunk_ids' # bs_cpu_sunk_ids

\* C25: after a CPU hit that is orthogonally adjacent to a first hit, the
\* two forming a run of two Hit cells, and that sinks no ship, the target
\* queue holds exactly the cells beyond the two ends of the run that are in
\* bounds and not fired at, and none of the other neighbours of either hit.
C25_SecondHitQueue ==
  [][\A p \in BSCells :
       (/\ BSCpuHits(p)
        /\ ~BSCpuSinks
        /\ Cardinality(BSCluster(bs_enemy_shots', {p})) = 2)
         => BSQueueIs(BSOpen(BSExtensions(BSCluster(bs_enemy_shots', {p}))))
    ]_vars

\* The cells that the call added to the target queue.
BSAdded == BSQueued(bs_target_queue') \ BSQueued(bs_target_queue)

\* The cells of S that are on the grid, not fired at after the call and not
\* in the target queue before it.
BSEligible(S) == {q \in BSOpen(S) : q \notin BSQueued(bs_target_queue)}

\* A set of at least two cells that lies in one row or in one column.
BSLinear(run) ==
  /\ Cardinality(run) >= 2
  /\ \/ Cardinality({p[1] : p \in run}) = 1
     \/ Cardinality({p[2] : p \in run}) = 1

\* C29: when a CPU hit makes the connected set of Hit cells containing it
\* have at least two cells, all in one row or one column, the only cells the
\* hit adds to the target queue are the two cells beyond the ends of the
\* run, each only if in bounds, not fired at and not already queued; both
\* are added unless the hit sinks a ship, which empties the queue.
C29_LinearClusterProbing ==
  [][\A p \in BSCells :
       (BSCpuHits(p) /\ BSLinear(BSCluster(bs_enemy_shots', {p})))
         => LET eligible == BSEligible(BSExtensions(BSCluster(bs_enemy_shots', {p})))
            IN /\ BSAdded \subseteq eligible
               /\ ~BSCpuSinks => BSAdded = eligible
               /\ BSCpuSinks => bs_target_queue' = <<>>
    ]_vars

\* The cell the CPU fired at in the last call, a hit.
BSLastCpuHit ==
  /\ game = "bs"
  /\ bs_last_message.kind = "fired"
  /\ bs_last_message.hits[2]

\* The CPU's last shot made a run of two hits in a row of the grid of side
\* HuntSize, and the queue holds the two cells beyond its ends.
C29_Witness ==
  /\ BSLastCpuHit
  /\ bs_size = HuntSize
  /\ bs_winner = None
  /\ LET run == BSCluster(bs_enemy_shots, {bs_last_message.squares[2]})
     IN /\ Cardinality(run) = 2
        /\ Cardinality({p[1] : p \in run}) = 1
        /\ BSExtensions(run) \subseteq BSCells
        /\ BSQueued(bs_target_queue) = BSExtensions(run)

\* A set of Hit cells that spans more than one row and more than one column.
BSBent(run) ==
  /\ Cardinality({p[1] : p \in run}) > 1
  /\ Cardinality({p[2] : p \in run}) > 1

\* C30 as stated: when a CPU hit makes the connected set of Hit cells
\* containing it span more than one row and more than one column, the cells
\* the hit adds to the target queue are in-bounds, unfired orthogonal
\* neighbours of the new hit cell only.
C30_ProbesNewHitOnly ==
  [][\A p \in BSCells :
       (BSCpuHits(p) /\ BSBent(BSCluster(bs_enemy_shots', {p})))
         => BSAdded \subseteq BSOpen(BSNeighbours(p))
    ]_vars

\* C30 as amended: such a hit adds the in-bounds, unfired, not yet queued
\* orthogonal neighbours of every cell of the connected set, the new hit
\* cell and the earlier hits alike, and nothing else; all of them are added
\* unless the hit sinks a ship, which empties the queue.
C30_ProbesWholeCluster ==
  [][\A p \in BSCells :
       (BSCpuHits(p) /\ BSBent(BSCluster(bs_enemy_shots', {p})))
         => LET eligible ==
                  BSEligible(UNION {BSNeighbours(x) : x \in BSCluster(bs_enemy_shots', {p})})
            IN /\ BSAdded \subseteq eligible
               /\ ~BSCpuSinks => BSAdded = eligible
               /\ BSCpuSinks => bs_target_queue' = <<>>
    ]_vars

\* The CPU's last shot joined hits in more than one row and column without
\* sinking a ship, and the last cell of the queue is a neighbour of an
\* earlier hit of the set that is not a neighbour of the new hit.
C30_Witness ==
  /\ BSLastCpuHit
  /\ bs_winner = None
  /\ bs_last_message.sunk = <<>>
  /\ bs_target_queue # <<>>
  /\ LET p == bs_last_message.squares[2]
         e == bs_target_queue[Len(bs_target_queue)]
     IN /\ BSBent(BSCluster(bs_enemy_shots, {p}))
        /\ e \notin BSNeighbours(p)
        /\ \E x \in BSCluster(bs_enemy_shots, {p}) \ {p} : e \in BSNeighbours(x)

\* C31: after a CPU shot that hits the last cell of a player ship not yet
\* Hit, the target queue and its membership set are empty at the end of the
\* call, the cells that the same hit added included; and the queue changes
\* in no call without a CPU shot, so that the next CPU shot finds it empty.
C31_SinkReturnsToHunt ==
  [][/\ \A p \in BSCells :
          (/\ BSCpuHits(p)
           /\ BSShipHit(bs_player_ship_ids, bs_enemy_shots',
                        bs_player_ship_ids[p[1]][p[2]]))
            => bs_target_queue' = <<>> /\ bs_target_set' = {}
     /\ (game = "bs" /\ bs_enemy_shots' = bs_enemy_shots)
          => bs_target_queue' = bs_target_queue /\ bs_target_set' = bs_target_set
    ]_vars

\* The CPU's last shot sank a ship by a hit with an unfired neighbour, the
\* game goes on and the queue is empty.
C31_Witness ==
  /\ BSLastCpuHit
  /\ bs_size = HuntSize
  /\ bs_winner = None
  /\ \E k \in 1..Len(bs_last_message.sunk) : bs_last_message.sunk[k].by = "I"
  /\ bs_target_queue = <<>>
  /\ bs_target_set = {}
  /\ \E q \in BSNeighbours(bs_last_message.squares[2]) : bs_enemy_shots[q[1]][q[2]] = 0

\* The call holds a CPU shot at the cell p.
BSCpuFires(p) ==
  /\ game = "bs"
  /\ bs_enemy_shots[p[1]][p[2]] = 0
  /\ bs_enemy_shots'[p[1]][p[2]] # 0

\* The cells not fired at by the CPU with row + column even.
BSParityPool(shots) == {q \in BSCells : shots[q[1]][q[2]] = 0 /\ (q[1] + q[2]) % 2 = 0}

\* C32: whenever the CPU fires with an empty target queue, the shot is on a
\* cell not fired at before, with row + column even as long as such a cell
\* exists; a cell with row + column odd is chosen only when none remains.
C32_HuntParity ==
  [][\A p \in BSCells :
       (BSCpuFires(p) /\ bs_target_queue = <<>>)
         => (BSParityPool(bs_enemy_shots) # {} => p \in BSParityPool(bs_enemy_shots))
    ]_vars

\* The CPU's last shot went to a cell with row + column odd that neighbours
\* no Hit cell, every cell with row + column even having been fired at.
C32_Witness ==
  /\ game = "bs"
  /\ bs_last_message.kind = "fired"
  /\ BSParityPool(bs_enemy_shots) = {}
  /\ LET p == bs_last_message.squares[2]
     IN /\ (p[1] + p[2]) % 2 = 1
        /\ \A q \in BSNeighbours(p) : bs_enemy_shots[q[1]][q[2]] # 2

\* The cells the CPU hunts over when no queued cell is left: the unfired
\* cells with row + column even or, when there is none, every unfired cell.
BSHuntPool(shots) ==
  IF BSParityPool(shots) # {} THEN BSParityPool(shots)
  ELSE {q \in BSCells : shots[q[1]][q[2]] = 0}

\* C33 as stated: the enemy fleet being fixed, a handle_key call has one
\* outcome whenever the target queue is non-empty or an unfired cell with
\* row + column even exists; only the fallback shot is open.
C33_DeterministicButFallback ==
  game = "bs" =>
    \A names \in SUBSET BSKeys :
      (bs_target_queue # <<>> \/ BSParityPool(bs_enemy_shots) # {})
        => Cardinality(BSOutcomes(names)) = 1

\* C33, amended: a handle_key call has one outcome whenever the target
\* queue is non-empty; with an empty queue its outcomes differ in the CPU's
\* shot alone, one outcome for each cell of the hunting pool, whether that
\* is the pool of even cells or the fallback pool.
C33_DeterministicButHunt ==
  game = "bs" =>
    \A names \in SUBSET BSKeys :
      LET R == BSOutcomes(names)
      IN /\ bs_target_queue # <<>> => Cardinality(R) = 1
         /\ Cardinality(R) > 1 =>
              /\ Cardinality(R) = Cardinality(BSHuntPool(bs_enemy_shots))
              /\ \A p \in BSHuntPool(bs_enemy_shots) : \E res \in R :
                   /\ res.enemy_shots[p[1]][p[2]] # 0
                   /\ \A q \in BSCells \ {p} : res.enemy_shots[q[1]][q[2]] = bs_enemy_shots[q[1]][q[2]]
              /\ \A res \in R : res.player_shots = (CHOOSE x \in R : TRUE).player_shots

\* The target queue holds two cells or more, and a batch that moves the
\* cursor to a cell not fired at and confirms has one outcome, in which the
\* CPU has fired at the head of the queue.
C33_Witness ==
  /\ game = "bs"
  /\ bs_size = HuntSize
  /\ bs_phase = "attack"
  /\ bs_winner = None
  /\ Len(bs_target_queue) >= 2
  /\ \E names \in SUBSET BSKeys : \E res \in BSOutcomes(names) :
       /\ BSOutcomes(names) = {res}
       /\ res.player_shots # bs_player_shots
       /\ res.enemy_shots[bs_target_queue[1][1]][bs_target_queue[1][2]] # 0

\* C34: in every reachable state the target queue holds no coordinate
\* twice, the membership set is exactly the set of the coordinates in the
\* queue, and every queued coordinate is a cell of the grid.
C34_QueueWellFormed ==
  game = "bs" =>
    /\ \A i, j \in 1..Len(bs_target_queue) :
         bs_target_queue[i] = bs_target_queue[j] => i = j
    /\ bs_target_set = BSQueued(bs_target_queue)
    /\ BSQueued(bs_target_queue) \subseteq BSCells

\* The queue holds three cells or more, one of them a neighbour of two Hit
\* cells, each of which would have queued it.
C34_Witness ==
  /\ game = "bs"
  /\ bs_size = HuntSize
  /\ Len(bs_target_queue) >= 3
  /\ \E q \in BSQueued(bs_target_queue) :
       Cardinality({h \in BSNeighbours(q) : bs_enemy_shots[h[1]][h[2]] = 2}) >= 2

\* Every coordinate in the target queue is Unknown in enemy_shots.
C35_QueuedUnknown ==
  \A q \in BSQueued(bs_target_queue) : bs_enemy_shots[q[1]][q[2]] = 0

\* A CPU shot taken with a non-empty queue goes to the oldest queued
\* coordinate, the first pop of _enemy_pick being returned.
C35_FiresOldest ==
  \A p \in BSCells :
    (BSCpuFires(p) /\ bs_target_queue # <<>>)
      => /\ p = Head(bs_target_queue)
         /\ BS_pop_target([queue |-> bs_target_queue, set |-> bs_target_set],
                          bs_enemy_shots).q.queue = Tail(bs_target_queue)

\* C35: in every reachable state every coordinate in the target queue is
\* still Unknown in enemy_shots; so whenever the queue is non-empty at the
\* CPU's turn the CPU fires at the oldest queued coordinate, and the pop
\* loop skips no coordinate.
C35_QueuedStayActionable ==
  /\ [](game = "bs" => C35_QueuedUnknown)
  /\ [][C35_FiresOldest]_vars

\* The CPU's last shot, a miss on a cell with row + column odd next to a
\* Hit cell, was popped from the queue while cells with row + column even
\* were left to hunt, and the queue still holds a coordinate.
C35_Witness ==
  /\ game = "bs"
  /\ bs_size = HuntSize
  /\ bs_last_message.kind = "fired"
  /\ ~bs_last_message.hits[2]
  /\ bs_target_queue # <<>>
  /\ BSParityPool(bs_enemy_shots) # {}
  /\ LET p == bs_last_message.squares[2]
     IN /\ (p[1] + p[2]) % 2 = 1
        /\ \E h \in BSNeighbours(p) : bs_enemy_shots[h[1]][h[2]] = 2

\* The cell of the CPU's shot in a call with a valid player shot that does
\* not win: the cell named in the message was Unknown in enemy_shots before
\* the call, is marked after it, and no other cell of enemy_shots changes.
C36_ShotOnUnknown(res) ==
  (BSValidShot(res) /\ res.winner # "player") =>
    LET p == res.last_message.squares[2]
    IN /\ p \in BSCells
       /\ bs_enemy_shots[p[1]][p[2]] = 0
       /\ res.enemy_shots[p[1]][p[2]] # 0
       /\ \A q \in BSCells \ {p} : res.enemy_shots[q[1]][q[2]] = bs_enemy_shots[q[1]][q[2]]

\* _enemy_pick has a cell to return in every call: no batch of tokens is
\* left without an outcome, and while the player still has a cell to fire
\* at in a running game, a cell of enemy_shots is Unknown.
C36_SomeCandidate ==
  /\ \A names \in SUBSET BSKeys : BSOutcomes(names) # {}
  /\ (/\ bs_phase = "attack"
      /\ bs_winner = None
      /\ \E q \in BSCells : bs_player_shots[q[1]][q[2]] = 0)
       => \E q \in BSCells : bs_enemy_shots[q[1]][q[2]] = 0

\* C36: every CPU shot targets a cell that is Unknown in enemy_shots just
\* before the shot, and whenever the CPU is asked to pick a shot at least
\* one Unknown cell exists.
C36_CpuShotValid ==
  game = "bs" =>
    /\ C36_SomeCandidate
    /\ \A names \in BSKeyBatches : \A res \in BSOutcomes(names) : C36_ShotOnUnknown(res)

\* The CPU has fired at every cell of the grid but one: its last pick had
\* two Unknown cells to choose from, the fewest a pick can find.
C36_Witness ==
  /\ game = "bs"
  /\ bs_last_message.kind = "fired"
  /\ Cardinality(BSFired(bs_enemy_shots)) = bs_size * bs_size - 1

\* The origins and orientations at which the ship of index bs_enemy_idx fits
\* on the enemy grid.
BSLegalTrials ==
  {t \in {"H", "V"} \X BSRange \X BSRange :
     BS_can_place(bs_enemy_board, t[2], t[3], SHIP_SIZES[bs_enemy_idx + 1], t[1])}

\* While a ship is still to be placed, one legal pair of orientation and
\* origin exists, whatever positions the earlier ships took.
C37_LegalTrialExists ==
  (game = "bs" /\ bs_enemy_idx < Len(SHIP_SIZES)) => BSLegalTrials # {}

\* C37: during reset, for each ship of SHIP_SIZES in order and whatever
\* legal positions the earlier ships took, a legal pair of orientation and
\* origin exists, so that under fair draws the loop that draws until the
\* ship fits places every ship and reset completes.
C37_PlacementTerminates ==
  /\ []C37_LegalTrialExists
  /\ <>(bs_enemy_idx = Len(SHIP_SIZES))

\* Every ship is placed, the second across the line of the first, where a
\* draw of the second ship along that line through the first would not fit;
\* the grids are one of the fleets a constructed engine starts with.
C37_Witness ==
  /\ game = "bs"
  /\ bs_size = HuntSize
  /\ bs_phase = "place"
  /\ bs_enemy_idx = Len(SHIP_SIZES)
  /\ [board |-> bs_enemy_board, ids |-> bs_enemy_ship_ids] \in BS_place_enemy_ships
  /\ \E p \in BSCells : \E q \in BSNeighbours(p) :
       bs_enemy_ship_ids[p[1]][p[2]] = 1 /\ bs_enemy_ship_ids[q[1]][q[2]] = 2

(***************************************************************************)
(* Properties of the three engines                                         *)
(***************************************************************************)
\* C4: once winner is set, a handle_key call with any tokens leaves the
\* whole state of the engine unchanged (winner, boards and shot grids,
\* cursor, phase, placement index, target queue).
C4_TerminalHandleKeyNoop ==
  [][last'.op = "handle_key" =>
       /\ (game = "ttt" /\ ttt_winner # None) => UNCHANGED ttt_vars
       /\ (game = "c4" /\ c4_winner # NoWinner) => UNCHANGED c4_vars
       /\ (game = "bs" /\ bs_winner # None) => UNCHANGED bs_vars
    ]_vars

\* A confirm was sent to a Battleship engine whose winner was set.
C4_Witness ==
  /\ game = "bs"
  /\ bs_winner = "cpu"
  /\ last.op = "handle_key"
  /\ "f2" \in last.names
  /\ ~last.changed

(***************************************************************************)
(* The session driver (src/dgc/app.py), in sessions of Tic Tac Toe         *)
(***************************************************************************)
\* The pad keys and their keyboard equivalents that reach on_pad_keys.
AppKeys == TTTKeys \cup {"f3"}

\* _count_token(board, value)
App_count_token(board, value) ==
  Cardinality({p \in (0..2) \X (0..2) : board[p[1]][p[2]] = value})

\* _game_over() with a TicTacToe engine.
App_game_over == ttt_winner # None

\* TicTacToe(): __post_init__ runs reset.  Also the values the engine
\* variables take while current_game is None.
TTT_construct ==
  /\ ttt_board' = TTTEmptyBoard
  /\ ttt_sel_row' = 0
  /\ ttt_sel_col' = 0
  /\ ttt_winner' = None
  /\ last' = Called("reset", {}, FALSE, FALSE)

\* back_to_menu()
App_back_to_menu ==
  /\ app_cpu_pending' = FALSE
  /\ app_cpu_timer' = FALSE
  /\ app_mode' = "menu"
  /\ TTT_construct
  /\ UNCHANGED <<game, c4_vars, bs_vars, app_menu_index, wq_vars>>

\* start_game(0)
App_start_game ==
  /\ TTT_construct
  /\ app_cpu_pending' = FALSE
  /\ app_mode' = "game"
  /\ UNCHANGED <<game, c4_vars, bs_vars, app_cpu_timer, wq_vars>>

\* The menu index after the navigation keys of a batch.
App_menu_nav(idx, names) ==
  LET up == IF "f1" \in names THEN (idx - 1) % MenuEntries ELSE idx
  IN IF "f4" \in names THEN (up + 1) % MenuEntries ELSE up

\* on_menu_select(idx): the link entry, Exit (Close ends the session, the
\* mode written "closed"), or a game.  Of the engines only TicTacToe is
\* started: the entries of the other two games are not selected in these
\* sessions.
App_on_menu_select(idx) ==
  IF idx = Len(MENU_ITEMS)
  THEN UNCHANGED <<game, last, ttt_vars, c4_vars, bs_vars, app_mode, app_cpu_pending,
                  app_cpu_timer, wq_vars>>
  ELSE IF idx = Len(MENU_ITEMS) - 1
  THEN /\ app_mode' = "closed"
       /\ app_cpu_timer' = FALSE
       /\ UNCHANGED <<game, last, ttt_vars, c4_vars, bs_vars, app_cpu_pending, wq_vars>>
  ELSE /\ idx = 0
       /\ App_start_game

\* _should_schedule_cpu_turn(names, before, game) with a TicTacToe engine,
\* before holding the board prev and game the board now and the winner.
App_should_schedule_cpu_turn(names, prev, now, winner) ==
  IF "f2" \notin names \/ winner # None THEN FALSE
  ELSE /\ App_count_token(now, player_mark) > App_count_token(prev, player_mark)
       /\ App_count_token(now, ai_mark) = App_count_token(prev, ai_mark)

\* The body of on_pad_keys(names) after its first check.
App_on_pad_keys_body(names) ==
  IF {"f1", "f4"} \subseteq names
  THEN App_back_to_menu
  ELSE IF app_mode = "menu"
  THEN /\ app_menu_index' = App_menu_nav(app_menu_index, names)
       /\ IF "f2" \in names
          THEN App_on_menu_select(App_menu_nav(app_menu_index, names))
          ELSE UNCHANGED <<game, last, ttt_vars, c4_vars, bs_vars, app_mode,
                           app_cpu_pending, app_cpu_timer, wq_vars>>
  ELSE IF App_game_over
  THEN IF "f3" \in names
       THEN App_back_to_menu
       ELSE UNCHANGED <<game, last, ttt_vars, c4_vars, bs_vars, app_vars>>
  ELSE /\ TTT_handle_key(names)
       /\ IF App_should_schedule_cpu_turn(names, ttt_board, ttt_board', ttt_winner')
          THEN /\ app_cpu_pending' = TRUE
               /\ app_cpu_timer' = TRUE
          ELSE UNCHANGED <<app_cpu_pending, app_cpu_timer>>
       /\ UNCHANGED <<app_mode, app_menu_index, wq_vars>>

\* on_pad_keys(names) without its first check: a batch reaches the engine
\* while a CPU turn is pending.
App_on_pad_keys_ungated(names) ==
  /\ app_mode \in {"menu", "game"}
  /\ App_on_pad_keys_body(names)

\* on_pad_keys(names): a batch of pad keys from the key timer, or the
\* keyboard equivalent of one key from _on_char_hook.
App_on_pad_keys(names) ==
  /\ app_mode \in {"menu", "game"}
  /\ IF app_mode = "game" /\ app_cpu_pending
     THEN UNCHANGED <<game, last, ttt_vars, c4_vars, bs_vars, app_vars>>
     ELSE App_on_pad_keys_body(names)

\* _on_char_hook on Escape in game mode.
App_on_escape ==
  /\ app_mode = "game"
  /\ App_back_to_menu

\* _on_grid_select: the grid reports the selection of cell (r, c).
App_on_grid_select(r, c) ==
  /\ app_mode = "game"
  /\ ttt_sel_row' = r
  /\ ttt_sel_col' = c
  /\ last' = Called("on_grid_select", {}, FALSE, FALSE)
  /\ UNCHANGED <<game, ttt_board, ttt_winner, c4_vars, bs_vars, app_vars>>

\* _run_cpu_turn(): the timer of _schedule_cpu_turn fires.
App_run_cpu_turn ==
  /\ app_cpu_timer
  /\ app_cpu_timer' = FALSE
  /\ app_cpu_pending' = FALSE
  /\ IF app_mode # "game" \/ App_game_over
     THEN UNCHANGED <<game, last, ttt_vars, c4_vars, bs_vars>>
     ELSE TTT_run_ai_turn
  /\ UNCHANGED <<app_mode, app_menu_index, wq_vars>>

\* __init__ of the frame: the menu on its first entry, no engine.
InitDriver ==
  /\ game = "ttt"
  /\ last = Called("reset", {}, FALSE, FALSE)
  /\ TTT_reset
  /\ Connect4_reset(MaxCols, MaxRows)
  /\ bs_size = GridSize
  /\ BS_reset(BSNoShips)
  /\ app_mode = "menu"
  /\ app_menu_index = 0
  /\ app_cpu_pending = FALSE
  /\ app_cpu_timer = FALSE
  /\ App_write_queue_init

\* The cells the grid reports as selected by a click.
DriverClicks == {<<0, 0>>, <<2, 2>>}

\* The cells of the human's first mark in a game: a corner, an edge and the
\* centre, every other cell being one of these turned or mirrored.
DriverOpenings == {<<0, 0>>, <<0, 1>>, <<1, 1>>}

\* The events of the UI thread, one at a time as the event loop runs them.
DriverNext ==
  \/ \E names \in SUBSET AppKeys :
       /\ App_on_pad_keys(names)
       /\ (ttt_board = TTTEmptyBoard /\ ttt_board' # TTTEmptyBoard) =>
            <<ttt_sel_row', ttt_sel_col'>> \in DriverOpenings
  \/ App_on_escape
  \/ \E cell \in DriverClicks : App_on_grid_select(cell[1], cell[2])
  \/ App_run_cpu_turn

SpecDriver == InitDriver /\ [][DriverNext]_vars

(***************************************************************************)
(* Properties of the session driver                                        *)
(***************************************************************************)
DriverDiff(b) == App_count_token(b, player_mark) - App_count_token(b, ai_mark)

\* At every moment of a session: the timer runs exactly while a CPU turn is
\* pending; a pending turn means a game in progress with one more player
\* mark than AI marks; otherwise a game in progress has as many of each.
C38_Balanced ==
  /\ app_cpu_timer = app_cpu_pending
  /\ DriverDiff(ttt_board) \in {0, 1}
  /\ app_cpu_pending =>
       app_mode = "game" /\ ttt_winner = None /\ DriverDiff(ttt_board) = 1
  /\ (app_mode = "game" /\ ~app_cpu_pending /\ ttt_winner = None) =>
       DriverDiff(ttt_board) = 0

\* A step that adds a player mark: one mark, placed by handle_key with no
\* CPU turn pending and the marks level, and it leaves a CPU turn pending
\* unless it ends the game.
C38_HumanMark ==
  App_count_token(ttt_board', player_mark) > App_count_token(ttt_board, player_mark) =>
    /\ app_mode = "game" /\ ~app_cpu_pending
    /\ DriverDiff(ttt_board) = 0
    /\ DriverDiff(ttt_board') = 1
    /\ App_count_token(ttt_board', ai_mark) = App_count_token(ttt_board, ai_mark)
    /\ last'.op = "handle_key"
    /\ ttt_winner' = None => (app_cpu_pending' /\ app_cpu_timer')

\* A step taken while a CPU turn is pending: the pending turn (run_ai_turn
\* returns True, one AI mark more, the flag cleared), a selection in the
\* grid, or the way back to the menu.  No such step is a handle_key call.
C38_WhilePending ==
  (app_mode = "game" /\ app_cpu_pending) =>
    \/ /\ last'.op = "run_ai_turn" /\ last'.ret
       /\ ~app_cpu_pending' /\ ~app_cpu_timer' /\ app_mode' = "game"
       /\ DriverDiff(ttt_board') = 0
       /\ App_count_token(ttt_board', player_mark) = App_count_token(ttt_board, player_mark)
    \/ /\ last'.op = "on_grid_select"
       /\ UNCHANGED <<ttt_board, ttt_winner, drv_vars>>
    \/ /\ app_mode' = "menu"
       /\ ~app_cpu_pending' /\ ~app_cpu_timer'
       /\ ttt_board' = TTTEmptyBoard

\* A step that adds an AI mark is the pending turn, and adds one mark.
C38_AiMark ==
  App_count_token(ttt_board', ai_mark) > App_count_token(ttt_board, ai_mark) =>
    /\ app_cpu_pending /\ ~app_cpu_pending'
    /\ App_count_token(ttt_board', ai_mark) = App_count_token(ttt_board, ai_mark) + 1

\* C38: under the session driver with a TicTacToe engine, an input batch in
\* which the human places a mark without ending the game leaves a CPU turn
\* pending; while it is pending no pad key batch reaches the engine; the
\* pending turn runs run_ai_turn once and clears the flag; and the player
\* marks minus the AI marks are always 0 or 1, the human placing a mark only
\* when they are level.
C38_DriverAlternates ==
  /\ []C38_Balanced
  /\ [][C38_HumanMark /\ C38_WhilePending /\ C38_AiMark]_vars

\* Two rounds have been played: the second pending turn has just run.
C38_Witness ==
  /\ app_mode = "game" /\ ~app_cpu_pending /\ ttt_winner = None
  /\ last.op = "run_ai_turn" /\ last.ret
  /\ App_count_token(ttt_board, player_mark) = 2
  /\ App_count_token(ttt_board, ai_mark) = 2

(***************************************************************************)
(* The display write queue (src/dgc/app.py)                                *)
(***************************************************************************)
\* queue.Queue(maxsize=1)
WriteQueueMaxsize == 1

\* The display jobs one session creates.
MaxJobs == 6

\* What the steps on the queue leave alone.
App_queue_frame == UNCHANGED <<game, last, ttt_vars, c4_vars, bs_vars, drv_vars>>

\* The UI thread calls _enqueue_pad_write(job) with a new job, numbered
\* app_jobs + 1.
App_enqueue_pad_write ==
  /\ app_ui_pc = "idle"
  /\ app_jobs < MaxJobs
  /\ app_jobs' = app_jobs + 1
  /\ app_ui_pc' = "full"
  /\ UNCHANGED <<app_write_queue, app_writer_pc, app_writer_job>>
  /\ App_queue_frame

\* _enqueue_pad_write that never finds the queue full.
App_enqueue_full_never ==
  /\ app_ui_pc = "full"
  /\ app_ui_pc' = "put_nowait"
  /\ UNCHANGED <<app_write_queue, app_writer_pc, app_writer_job, app_jobs>>
  /\ App_queue_frame

\* _enqueue_pad_write: if self._write_queue.full()
App_enqueue_full ==
  /\ app_ui_pc = "full"
  /\ app_ui_pc' = (IF Len(app_write_queue) >= WriteQueueMaxsize
                   THEN "get_nowait" ELSE "put_nowait")
  /\ UNCHANGED <<app_write_queue, app_writer_pc, app_writer_job, app_jobs>>
  /\ App_queue_frame

\* _enqueue_pad_write: get_nowait(), queue.Empty swallowed.
App_enqueue_get_nowait ==
  /\ app_ui_pc = "get_nowait"
  /\ app_write_queue' = (IF app_write_queue = <<>> THEN <<>> ELSE Tail(app_write_queue))
  /\ app_ui_pc' = "put_nowait"
  /\ UNCHANGED <<app_writer_pc, app_writer_job, app_jobs>>
  /\ App_queue_frame

\* _enqueue_pad_write: put_nowait(job).  On a full queue it raises
\* queue.Full, which nothing catches: the job is not queued.
App_enqueue_put_nowait ==
  /\ app_ui_pc = "put_nowait"
  /\ IF Len(app_write_queue) >= WriteQueueMaxsize
     THEN /\ app_ui_pc' = "raised"
          /\ UNCHANGED app_write_queue
     ELSE /\ app_ui_pc' = "idle"
          /\ app_write_queue' = Append(app_write_queue, app_jobs)
  /\ UNCHANGED <<app_writer_pc, app_writer_job, app_jobs>>
  /\ App_queue_frame

\* _writer_loop: get(timeout=0.1) returns a job.  A get that times out
\* changes nothing.
App_writer_loop_get ==
  /\ app_writer_pc = "get"
  /\ app_write_queue # <<>>
  /\ app_writer_job' = Head(app_write_queue)
  /\ app_write_queue' = Tail(app_write_queue)
  /\ app_writer_pc' = "job"
  /\ UNCHANGED <<app_ui_pc, app_jobs>>
  /\ App_queue_frame

\* _writer_loop: the job runs under the pad lock and the loop goes back to
\* get.
App_writer_loop_job ==
  /\ app_writer_pc = "job"
  /\ app_writer_pc' = "get"
  /\ UNCHANGED <<app_write_queue, app_ui_pc, app_writer_job, app_jobs>>
  /\ App_queue_frame

\* The steps of the UI thread inside _enqueue_pad_write.
App_enqueue_step ==
  \/ App_enqueue_full
  \/ App_enqueue_get_nowait
  \/ App_enqueue_put_nowait

\* The two threads, interleaved at the operations on the queue.
WriteQueueNext ==
  \/ App_enqueue_pad_write
  \/ App_enqueue_full
  \/ App_enqueue_get_nowait
  \/ App_enqueue_put_nowait
  \/ App_writer_loop_get
  \/ App_writer_loop_job

SpecWriteQueue == InitDriver /\ [][WriteQueueNext]_vars

(***************************************************************************)
(* Properties of the display write queue                                   *)
(***************************************************************************)
\* The queue never holds more than one job; the call never ends in
\* queue.Full and, once begun, always has its next step to take; and when
\* the UI thread is outside the call, the newest job is the one pending or
\* the one the writer took last.
C39_NewestKept ==
  /\ Len(app_write_queue) <= 1
  /\ app_ui_pc # "raised"
  /\ app_ui_pc # "idle" => ENABLED App_enqueue_step
  /\ (app_ui_pc = "idle" /\ app_jobs > 0) =>
       \/ app_write_queue = <<app_jobs>>
       \/ app_write_queue = <<>> /\ app_writer_job = app_jobs

\* get_nowait removes only a job older than the one being enqueued, and
\* put_nowait leaves the new job as the pending one.
C39_Replaces ==
  /\ (app_ui_pc = "get_nowait" /\ app_write_queue' # app_write_queue) =>
       (Head(app_write_queue) < app_jobs /\ app_write_queue' = <<>>)
  /\ (app_ui_pc = "put_nowait" /\ app_ui_pc' # app_ui_pc) =>
       (app_ui_pc' = "idle" /\ app_write_queue' = <<app_jobs>>)

\* C39: with the UI thread the only producer and the writer thread the only
\* consumer, under every interleaving the queue holds at most one pending
\* job, _enqueue_pad_write never blocks and never fails with a full queue,
\* and a newly enqueued job replaces a pending older job and is itself kept.
C39_WriteQueue == []C39_NewestKept /\ [][C39_Replaces]_vars

\* A job has replaced a pending older one: the newest job is pending and the
\* job before it was never taken by the writer.
C39_Witness ==
  /\ app_ui_pc = "idle"
  /\ app_jobs >= 2
  /\ app_write_queue = <<app_jobs>>
  /\ app_writer_job < app_jobs - 1

====
